---- MODULE Spec2Model ----
(***************************************************************************)
(* A model of the MongoDB aggregation-pipeline repair and validation code   *)
(* of db-mcp: fix_pipeline (client/unified_agent.py and                     *)
(* archived_sample/client/mongo_agent.py), validate_pipeline                *)
(* (archived_sample/client/mongo_agent.py) and the two callers that send a  *)
(* generated pipeline to the run_aggregate_query tool; of the SQL server    *)
(* (archived_sample/sql_server), the read-only MongoDB server (mongodb) and *)
(* the connections of UnifiedAgent.run.                                     *)
(*                                                                          *)
(* A Python str is a sequence of one-character strings, so that strip,      *)
(* startswith, split and the regular expression are computed character by   *)
(* character.  A JSON value is a tagged record:                             *)
(*   [t |-> "str", s |-> chars]      [t |-> "int", n |-> Int]               *)
(*   [t |-> "float", kind, m, e]     [t |-> "null"]                         *)
(*   [t |-> "list", elems |-> seq]   [t |-> "obj", items |-> seq of [k, v]] *)
(* A dict keeps its insertion order, so an object is the sequence of its    *)
(* items (keys distinct).                                                   *)
(***************************************************************************)
EXTENDS Integers, Sequences, FiniteSets, TLC

VARIABLES
    pc,         \* position of the run
    copy,       \* which copy of fix_pipeline runs: "unified" or "archived"
    pipeline,   \* the pipeline the generator produced (the argument)
    fixed,      \* what fix_pipeline returned or raised
    refixed,    \* what fix_pipeline returned on its own output
    verdict,    \* what validate_pipeline returned or raised
    qtype,      \* MongoQuery.query_type of the generated query
    calls,      \* the tool calls made on the MCP session, in order
    answer,     \* how the caller's step ended
    heap,       \* the objects of the interpreter, by address
    task,       \* the concurrent invocations of fix_pipeline
    args,       \* the pipelines handed to those invocations, as values
    log,        \* what the caller invoked, in order
    detail,     \* the error text the caller's answer carries
    sub,        \* the sub-tasks handed to asyncio.gather
    report,     \* how the fan-out ended
    dbschema,   \* the schema the SQL database has now
    cache,      \* DatabaseManager._schema_cache
    inspected,  \* the schemas the inspector has read, in order
    executed,   \* the queries handed to conn.execute, in order
    reply,      \* what the last SQL tool call returned or raised
    config,     \* MongoDBConfig: whether the connection string is usable
    server,     \* whether the MongoDB server answers now
    client,     \* MongoDBSession.client
    current_database,   \* MongoDBSession.current_database
    connected,  \* how the most recent MongoDBSession.connect ended
    issued,     \* the operations sent to the MongoDB server, in order
    thrown,     \* the exception raised inside the last tool's execute
    response,   \* what the last MongoDB tool call gave the MCP layer
    exit_stack, \* UnifiedAgent.exit_stack: the contexts entered, in order
    opened,     \* the server connections that are open
    todo        \* the steps of the plan still to execute

runVars == <<pc, copy, pipeline, fixed, refixed, verdict, qtype, calls, answer>>

heapVars == <<heap, task, args>>

logVars == <<log, detail>>

gatherVars == <<sub, report>>

sqlVars == <<dbschema, cache, inspected, executed, reply>>

mongoVars == <<config, server, client, current_database, connected, issued,
               thrown, response>>

agentVars == <<exit_stack, opened, todo>>

vars == <<runVars, heapVars, logVars, gatherVars, sqlVars, mongoVars, agentVars>>

\* what the function-level steps, the caller's steps and the steps on the
\* heap leave alone
outsidePure == <<heapVars, logVars, gatherVars, sqlVars, mongoVars, agentVars>>

outsideCaller == <<heapVars, gatherVars, sqlVars, mongoVars, agentVars>>

outsideHeap == <<logVars, gatherVars, sqlVars, mongoVars, agentVars>>

\* no invocation on the heap
HeapIdle == heap = << >> /\ task = << >> /\ args = << >>

\* nothing invoked yet
LogIdle == log = << >> /\ detail = "none"

\* no fan-out
GatherIdle == sub = << >> /\ report = "none"

\* _schema_cache: Optional[SchemaMetadata] = None
NoSchema == -1

\* the SQL server as it starts: no schema cached, nothing executed
SqlIdle ==
    /\ dbschema = 0 /\ cache = NoSchema /\ inspected = << >>
    /\ executed = << >>
    /\ reply = [tool |-> "none", outcome |-> "none", value |-> NoSchema, query |-> << >>]

\* no exception
NoError == [cls |-> "none", message |-> "none"]

\* no tool of the MongoDB server called yet
NoResponse == [tool |-> "none", kind |-> "none", isError |-> FALSE, text |-> << >>]

\* the MongoDB server's session as the module is imported: session =
\* MongoDBSession(), self.client = None, self.current_database = None
SessionNew ==
    /\ client = "None" /\ current_database = "None" /\ connected = "never"
    /\ issued = << >> /\ thrown = NoError /\ response = NoResponse

MongoIdle == config = "valid" /\ server = "up" /\ SessionNew

\* UnifiedAgent(): an empty exit stack, nothing connected
AgentIdle == exit_stack = << >> /\ opened = {} /\ todo = << >>

----------------------------------------------------------------------------
(* Characters and str methods                                               *)

LowerSeq == <<"a","b","c","d","e","f","g","h","i","j","k","l","m",
             "n","o","p","q","r","s","t","u","v","w","x","y","z">>
UpperSeq == <<"A","B","C","D","E","F","G","H","I","J","K","L","M",
             "N","O","P","Q","R","S","T","U","V","W","X","Y","Z">>
Lower == {LowerSeq[i] : i \in 1..Len(LowerSeq)}
Upper == {UpperSeq[i] : i \in 1..Len(UpperSeq)}
Digits == {"0","1","2","3","4","5","6","7","8","9"}

\* str.isspace() and the regular expression's \s, on the characters used here
Whitespace == {" ", "\t", "\n", "\r"}

\* the class [a-zA-Z0-9_.]
WordChars == Lower \cup Upper \cup Digits \cup {"_", "."}

\* the class [:\s]
SepChars == {":"} \cup Whitespace

\* the class ["'], also the argument of strip('"\'')
Quotes == {"\"", "'"}

DropFirst(s, n) == SubSeq(s, n + 1, Len(s))

RECURSIVE lstrip_chars(_, _)
lstrip_chars(s, cs) ==
    IF s # <<>> /\ Head(s) \in cs THEN lstrip_chars(Tail(s), cs) ELSE s

RECURSIVE rstrip_chars(_, _)
rstrip_chars(s, cs) ==
    IF s # <<>> /\ s[Len(s)] \in cs
    THEN rstrip_chars(SubSeq(s, 1, Len(s) - 1), cs) ELSE s

\* s.strip(chars)
strip_chars(s, cs) == rstrip_chars(lstrip_chars(s, cs), cs)

\* s.strip()
strip(s) == strip_chars(s, Whitespace)

\* s.startswith(p)
startswith(s, p) == Len(s) >= Len(p) /\ SubSeq(s, 1, Len(p)) = p

\* c in s
contains(s, c) == \E i \in 1..Len(s) : s[i] = c

\* s.find(c) + 1: the position of the first c in s, 0 when there is none
FirstIndex(s, c) ==
    IF contains(s, c)
    THEN CHOOSE i \in 1..Len(s) : s[i] = c /\ \A j \in 1..(i - 1) : s[j] # c
    ELSE 0

\* s.split(c, 1) of a string that contains c
split_once(s, c) ==
    LET i == FirstIndex(s, c)
    IN  << SubSeq(s, 1, i - 1), SubSeq(s, i + 1, Len(s)) >>

\* the longest prefix of s made of characters satisfying the class
RECURSIVE SpanLen(_, _)
SpanLen(s, cls) ==
    IF s # <<>> /\ Head(s) \in cls THEN 1 + SpanLen(Tail(s), cls) ELSE 0

----------------------------------------------------------------------------
(* int(str) and float(str)                                                  *)

DigitVal(c) ==
    CASE c = "0" -> 0 [] c = "1" -> 1 [] c = "2" -> 2 [] c = "3" -> 3
      [] c = "4" -> 4 [] c = "5" -> 5 [] c = "6" -> 6 [] c = "7" -> 7
      [] c = "8" -> 8 [] c = "9" -> 9

\* digits, single underscores allowed between two digits ("1_000", not "_1", "1__0")
IsDigitPart(s) ==
    /\ s # <<>>
    /\ \A i \in 1..Len(s) : s[i] \in Digits \cup {"_"}
    /\ s[1] \in Digits /\ s[Len(s)] \in Digits
    /\ \A i \in 1..(Len(s) - 1) : ~(s[i] = "_" /\ s[i + 1] = "_")

OnlyDigits(s) == SelectSeq(s, LAMBDA c : c \in Digits)

\* the number a sequence of digits writes in base ten
RECURSIVE DecValue(_)
DecValue(ds) ==
    IF ds = <<>> THEN 0
    ELSE 10 * DecValue(SubSeq(ds, 1, Len(ds) - 1)) + DigitVal(ds[Len(ds)])

\* an optional sign in front of the body of a number
SignOf(s) == IF s # <<>> /\ Head(s) = "-" THEN -1 ELSE 1
Unsigned(s) == IF s # <<>> /\ Head(s) \in {"+", "-"} THEN Tail(s) ELSE s

\* int(s): [ok |-> FALSE] stands for ValueError
py_int(s) ==
    LET b == Unsigned(strip(s))
    IN  IF IsDigitPart(b)
        THEN [ok |-> TRUE, n |-> SignOf(strip(s)) * DecValue(OnlyDigits(b))]
        ELSE [ok |-> FALSE, n |-> 0]

ToLower(c) ==
    IF c \in Upper
    THEN LowerSeq[CHOOSE i \in 1..Len(UpperSeq) : UpperSeq[i] = c]
    ELSE c

LowerCase(s) == [i \in 1..Len(s) |-> ToLower(s[i])]

\* m * 10^e with m not a multiple of ten: equal floats get equal records
RECURSIVE NormalForm(_, _)
NormalForm(m, e) ==
    IF m = 0 THEN <<0, 0>>
    ELSE IF m % 10 = 0 THEN NormalForm(m \div 10, e + 1)
    ELSE <<m, e>>

\* the position of the exponent letter, 0 when there is none
ExpIndex(b) ==
    IF contains(b, "e") \/ contains(b, "E")
    THEN CHOOSE i \in 1..Len(b) :
            /\ b[i] \in {"e", "E"}
            /\ \A j \in 1..(i - 1) : b[j] \notin {"e", "E"}
    ELSE 0

\* float(s): decimal digits with an optional point and exponent, or inf,
\* infinity, nan in any case; [ok |-> FALSE] stands for ValueError.  The
\* decimal value is kept exactly (texts here are far shorter than a double's
\* precision and their exponents lie within its range).
py_float(s) ==
    LET t    == strip(s)
        sg   == SignOf(t)
        b    == Unsigned(t)
        x    == ExpIndex(b)
        mant == IF x = 0 THEN b ELSE SubSeq(b, 1, x - 1)
        ex   == IF x = 0 THEN <<>> ELSE SubSeq(b, x + 1, Len(b))
        exOk == x = 0 \/ IsDigitPart(Unsigned(ex))
        exV  == IF x = 0 \/ ~exOk THEN 0
                ELSE SignOf(ex) * DecValue(OnlyDigits(Unsigned(ex)))
        dot  == FirstIndex(mant, ".")
        ip   == IF dot = 0 THEN mant ELSE SubSeq(mant, 1, dot - 1)
        fp   == IF dot = 0 THEN <<>> ELSE SubSeq(mant, dot + 1, Len(mant))
        mOk  == /\ ip = <<>> \/ IsDigitPart(ip)
                /\ fp = <<>> \/ IsDigitPart(fp)
                /\ ip # <<>> \/ fp # <<>>
        fd   == OnlyDigits(fp)
        nf   == NormalForm(sg * DecValue(OnlyDigits(ip) \o fd), exV - Len(fd))
    IN  IF LowerCase(b) \in { <<"i","n","f">>, <<"i","n","f","i","n","i","t","y">> }
        THEN [ok |-> TRUE, kind |-> "inf", m |-> sg, e |-> 0]
        ELSE IF LowerCase(b) = <<"n","a","n">>
        THEN [ok |-> TRUE, kind |-> "nan", m |-> 0, e |-> 0]
        ELSE IF mOk /\ exOk
        THEN [ok |-> TRUE, kind |-> "fin", m |-> nf[1], e |-> nf[2]]
        ELSE [ok |-> FALSE, kind |-> "fin", m |-> 0, e |-> 0]

----------------------------------------------------------------------------
(* JSON values                                                              *)

JStr(s)     == [t |-> "str", s |-> s]
JInt(n)     == [t |-> "int", n |-> n]
JFloat(f)   == [t |-> "float", kind |-> f.kind, m |-> f.m, e |-> f.e]
JNull       == [t |-> "null"]
JList(es)   == [t |-> "list", elems |-> es]
JObj(items) == [t |-> "obj", items |-> items]
Item(k, v) == [k |-> k, v |-> v]

\* isinstance(v, str), isinstance(v, dict)
IsStr(v)  == v.t = "str"
IsDict(v) == v.t = "obj"

\* k in d
HasKey(d, k) == \E i \in 1..Len(d.items) : d.items[i].k = k

\* d[k] of a dict that has the key
Get(d, k) == d.items[CHOOSE i \in 1..Len(d.items) : d.items[i].k = k].v

\* d[k] = v of a dict that has the key: the key keeps its place
Put(d, k, v) ==
    JObj([i \in 1..Len(d.items) |->
            IF d.items[i].k = k THEN Item(k, v) ELSE d.items[i]])

K_group == <<"$","g","r","o","u","p">>
K_id    == <<"_","i","d">>

----------------------------------------------------------------------------
(* The accumulator pattern                                                  *)

\* (\$(?:sum|avg|min|max|first|last|push|addToSet)): the alternatives in order
AccOps == <<
    <<"$","s","u","m">>, <<"$","a","v","g">>, <<"$","m","i","n">>,
    <<"$","m","a","x">>, <<"$","f","i","r","s","t">>, <<"$","l","a","s","t">>,
    <<"$","p","u","s","h">>, <<"$","a","d","d","T","o","S","e","t">> >>

\* the first alternative the text starts with, 0 when it starts with none
\* (no alternative is a prefix of another, so the first is the only one)
MatchedOp(s) ==
    IF \E i \in 1..Len(AccOps) : startswith(s, AccOps[i])
    THEN CHOOSE i \in 1..Len(AccOps) :
            /\ startswith(s, AccOps[i])
            /\ \A j \in 1..(i - 1) : ~startswith(s, AccOps[j])
    ELSE 0

PatternTail_separator_needed(r) ==
    LET s  == SpanLen(r, SepChars)
        a  == DropFirst(r, s)
        b  == IF a # <<>> /\ Head(a) \in Quotes THEN Tail(a) ELSE a
        d  == IF b # <<>> /\ Head(b) = "$" THEN 1 ELSE 0
        w  == SpanLen(DropFirst(b, d), WordChars)
        n2 == IF w > 0 THEN d + w ELSE 0
        c  == DropFirst(b, n2)
        z  == IF c # <<>> /\ Head(c) \in Quotes THEN Tail(c) ELSE c
    IN  [atEnd |-> z = <<>> /\ (s > 0 \/ r = <<>>), has2 |-> n2 > 0,
         g2 |-> SubSeq(b, 1, n2)]

\* [:\s]*["']?(\$?[a-zA-Z0-9_.]+)?["']?$ on what follows the operator.  The
\* four character classes are disjoint, so the greedy choices are the only
\* ones that can reach the end: all separators, then a quote if there is one,
\* then the operand if there is one, then a quote if there is one.  has2 is
\* "group 2 took part in the match"; g2 is its text.
PatternTail(r) ==
    LET a  == DropFirst(r, SpanLen(r, SepChars))
        b  == IF a # <<>> /\ Head(a) \in Quotes THEN Tail(a) ELSE a
        d  == IF b # <<>> /\ Head(b) = "$" THEN 1 ELSE 0
        w  == SpanLen(DropFirst(b, d), WordChars)
        n2 == IF w > 0 THEN d + w ELSE 0
        c  == DropFirst(b, n2)
        z  == IF c # <<>> /\ Head(c) \in Quotes THEN Tail(c) ELSE c
    IN  [atEnd |-> z = <<>>, has2 |-> n2 > 0, g2 |-> SubSeq(b, 1, n2)]

NoMatch == [matched |-> FALSE, g1 |-> <<>>, has2 |-> FALSE, g2 |-> <<>>]

\* pattern.match(s) for the pattern with "(...)?" around the operand
\* (optional) or without the "?" (the operand group must take part)
MatchWith(s, optional) ==
    LET i == MatchedOp(s)
        r == IF i = 0 THEN [atEnd |-> FALSE, has2 |-> FALSE, g2 |-> <<>>]
             ELSE PatternTail(DropFirst(s, Len(AccOps[i])))
    IN  IF i # 0 /\ r.atEnd /\ (optional \/ r.has2)
        THEN [matched |-> TRUE, g1 |-> AccOps[i], has2 |-> r.has2, g2 |-> r.g2]
        ELSE NoMatch

acc_pattern_operand_required(s) == MatchWith(s, FALSE)

\* acc_pattern.match(s) of client/unified_agent.py: the operand is optional
acc_pattern(s) == MatchWith(s, TRUE)

acc_pattern_archived_operand_optional(s) == MatchWith(s, TRUE)

\* acc_pattern.match(s) of archived_sample/client/mongo_agent.py: the operand
\* group has no "?", so a match needs it
acc_pattern_archived(s) == MatchWith(s, FALSE)

----------------------------------------------------------------------------
(* fix_pipeline                                                             *)

DefaultOperand == <<"$","v","a","l","u","e">>

coerce_float_only(val) ==
    IF py_float(val).ok THEN JFloat(py_float(val)) ELSE JStr(val)

\* try: int(val) except: try: float(val) except: pass
coerce(val) ==
    IF py_int(val).ok THEN JInt(py_int(val).n)
    ELSE IF py_float(val).ok THEN JFloat(py_float(val))
    ELSE JStr(val)

colon_split_bare_operand(s) ==
    JStr(strip_chars(strip(split_once(s, ":")[2]), Quotes))

colon_split_coerced(s) ==
    LET parts == split_once(s, ":")
    IN  JObj(<< Item(strip(parts[1]),
                     coerce(strip_chars(strip(parts[2]), Quotes))) >>)

colon_split_key_as_is(s) ==
    LET parts == split_once(s, ":")
    IN  JObj(<< Item(parts[1],
                     JStr(strip_chars(strip(parts[2]), Quotes))) >>)

\* the fallback: parts = v.split(":", 1); {parts[0].strip(): parts[1].strip().strip('"\'')}
colon_split(s) ==
    LET parts == split_once(s, ":")
    IN  JObj(<< Item(strip(parts[1]),
                     JStr(strip_chars(strip(parts[2]), Quotes))) >>)

fix_value_any_string(v) ==
    IF IsStr(v)
    THEN LET match == acc_pattern(strip(v.s))
         IN  IF match.matched
             THEN LET op  == match.g1
                      val == IF match.has2 THEN match.g2 ELSE DefaultOperand
                  IN  JObj(<< Item(op, coerce(val)) >>)
             ELSE IF contains(v.s, ":") THEN colon_split(v.s)
             ELSE v
    ELSE v

fix_value_stripped(v) ==
    IF IsStr(v) /\ startswith(strip(v.s), <<"$">>)
    THEN LET match == acc_pattern(strip(v.s))
         IN  IF match.matched
             THEN LET op  == match.g1
                      val == IF match.has2 THEN match.g2 ELSE DefaultOperand
                  IN  JObj(<< Item(op, coerce(val)) >>)
             ELSE IF contains(v.s, ":") THEN colon_split(v.s)
             ELSE JStr(strip(v.s))
    ELSE v

\* the new value of one non-"_id" field, client/unified_agent.py
fix_value(v) ==
    IF IsStr(v) /\ startswith(strip(v.s), <<"$">>)
    THEN LET match == acc_pattern(strip(v.s))
         IN  IF match.matched
             THEN LET op  == match.g1
                      val == IF match.has2 THEN match.g2 ELSE DefaultOperand
                  IN  JObj(<< Item(op, coerce(val)) >>)
             ELSE IF contains(v.s, ":") THEN colon_split(v.s)
             ELSE v
    ELSE v

\* the new value of one non-"_id" field, archived_sample/client/mongo_agent.py
fix_value_archived(v) ==
    IF IsStr(v) /\ startswith(strip(v.s), <<"$">>)
    THEN LET match == acc_pattern_archived(strip(v.s))
         IN  IF match.matched
             THEN JObj(<< Item(match.g1, coerce(match.g2)) >>)
             ELSE IF contains(v.s, ":") THEN colon_split(v.s)
             ELSE v
    ELSE v

Copies == {"unified", "archived"}

fix_group_every_key(cp, group) ==
    JObj([i \in 1..Len(group.items) |->
            Item(group.items[i].k,
                 IF cp = "unified" THEN fix_value(group.items[i].v)
                 ELSE fix_value_archived(group.items[i].v))])

\* for k, v in group.items(): the "_id" entry is copied, the others fixed
fix_group(cp, group) ==
    JObj([i \in 1..Len(group.items) |->
            LET k == group.items[i].k
                v == group.items[i].v
            IN  IF k = K_id THEN Item(k, v)
                ELSE Item(k, IF cp = "unified" THEN fix_value(v)
                             ELSE fix_value_archived(v))])

\* group.items() raises AttributeError unless group is a dict
StageRaises(stage) == HasKey(stage, K_group) /\ ~IsDict(Get(stage, K_group))

fix_stage_group_only(cp, stage) ==
    IF HasKey(stage, K_group)
    THEN JObj(<< Item(K_group, fix_group(cp, Get(stage, K_group))) >>)
    ELSE stage

\* new_stage = stage.copy(); new_stage["$group"] = new_group
fix_stage(cp, stage) ==
    IF HasKey(stage, K_group)
    THEN Put(stage, K_group, fix_group(cp, Get(stage, K_group)))
    ELSE stage

FixPipelineOf_prepending(cp, p) ==
    IF \E i \in 1..Len(p) : StageRaises(p[i])
    THEN [exc |-> "AttributeError", value |-> <<>>]
    ELSE [exc |-> "none",
          value |-> [i \in 1..Len(p) |-> fix_stage(cp, p[Len(p) + 1 - i])]]

\* the loop over the stages: the first stage whose "$group" is no dict ends
\* the call with AttributeError, otherwise the list of new stages is returned
FixPipelineOf(cp, p) ==
    IF \E i \in 1..Len(p) : StageRaises(p[i])
    THEN [exc |-> "AttributeError", value |-> <<>>]
    ELSE [exc |-> "none", value |-> [i \in 1..Len(p) |-> fix_stage(cp, p[i])]]

fix_pipeline(p) == FixPipelineOf("unified", p)

fix_pipeline_archived(p) == FixPipelineOf("archived", p)

----------------------------------------------------------------------------
(* validate_pipeline                                                        *)

Passed == [exc |-> "none", stage |-> 0, field |-> <<>>, check |-> "none"]

FieldError_one_message(i, key, value) ==
    [exc |-> "ValueError", stage |-> i, field |-> key, check |-> "isinstance"]

\* the two raise statements: the isinstance check and the operators check
FieldError(i, key, value) ==
    IF ~IsDict(value)
    THEN [exc |-> "ValueError", stage |-> i, field |-> key, check |-> "isinstance"]
    ELSE [exc |-> "ValueError", stage |-> i, field |-> key, check |-> "operators"]

\* operators = [k for k in value.keys() if k.startswith("$")]
operators(value) ==
    SelectSeq([j \in 1..Len(value.items) |-> value.items[j].k],
              LAMBDA k : startswith(k, <<"$">>))

FieldFails_isinstance_only(key, value) ==
    key # K_id /\ ~IsDict(value)

\* the field is not skipped and one of the two checks raises
FieldFails(key, value) ==
    key # K_id /\ (~IsDict(value) \/ operators(value) = <<>>)

\* the fields of one "$group", in order, from field j on; i is enumerate's index
RECURSIVE validate_fields(_, _, _)
validate_fields(i, items, j) ==
    IF j > Len(items) THEN Passed
    ELSE IF FieldFails(items[j].k, items[j].v)
    THEN FieldError(i, items[j].k, items[j].v)
    ELSE validate_fields(i, items, j + 1)

validate_stage(i, stage) ==
    IF ~HasKey(stage, K_group) THEN Passed
    ELSE IF ~IsDict(Get(stage, K_group))
    THEN [exc |-> "AttributeError", stage |-> i, field |-> <<>>, check |-> "none"]
    ELSE validate_fields(i, Get(stage, K_group).items, 1)

\* the stages in order from position n on (enumerate counts from 0)
RECURSIVE validate_from(_, _)
validate_from(p, n) ==
    IF n > Len(p) THEN Passed
    ELSE IF validate_stage(n - 1, p[n]).exc # "none"
    THEN validate_stage(n - 1, p[n])
    ELSE validate_from(p, n + 1)

validate_pipeline(p) == validate_from(p, 1)

----------------------------------------------------------------------------
(* The pipelines the generator may produce                                  *)

MaxTail   == 3
MaxStages == 2

S_sum1   == <<"$","s","u","m",":"," ","1">>                      \* "$sum: 1"
S_price  == <<"$","p","r","i","c","e">>                          \* "$price"
S_cat    == <<"$","c","a","t">>                                  \* "$cat"
S_custom == <<"c","u","s","t","o","m",":"," ","5">>              \* "custom: 5"
S_dsum   == <<"$","s","u","m">>                                  \* "$sum"
S_davg   == <<"$","a","v","g">>                                  \* "$avg"
S_dSUM   == <<"$","S","U","M">>                                  \* "$SUM"

\* what a malformed accumulator string may start with
Heads == { <<>>, S_dsum, S_dSUM, <<" ">> \o S_davg }

\* and the characters that may follow: a separator of each kind, a quote,
\* the sigil, a digit and a letter
TailAlphabet == {":", " ", "'", "$", "1", "a"}

RECURSIVE SeqsUpTo(_, _)
SeqsUpTo(A, n) ==
    IF n = 0 THEN { <<>> }
    ELSE LET shorter == SeqsUpTo(A, n - 1)
         IN  shorter \cup { Append(s, c) : s \in shorter, c \in A }

HeadTailStrings == { h \o tl : h \in Heads, tl \in SeqsUpTo(TailAlphabet, MaxTail) }

\* strings with the characters the alphabet leaves out
ExtraStrings == {
    S_davg \o <<" ">> \o S_price,                          \* "$avg $price"
    S_dsum \o <<"m","a","r","y">>,                         \* "$summary"
    <<"$","f","i","r","s","t","_","n","a","m","e">>,       \* "$first_name"
    S_price,                                               \* "$price"
    S_custom,                                              \* "custom: 5"
    <<"$">> \o S_custom,                                   \* "$custom: 5"
    <<"$","s","t","d","D","e","v","P","o","p",":"," ","$","x">>,
    <<"$","a","d","d","T","o","S","e","t"," ","\"","$","t","a","g","\"">>,
    <<"$","p","u","s","h",":","\t","$","a",".","b">>,      \* "$push:\t$a.b"
    <<"$","l","a","s","t">>,                               \* "$last"
    <<"$","m","i","n",":">>,                               \* "$min:"
    <<"$","m","a","x","'","'">>,                           \* "$max''"
    S_dsum \o <<":"," ","0","0","7">>,                     \* "$sum: 007"
    S_dsum \o <<":"," ","1","_","0">>,                     \* "$sum: 1_0"
    S_dsum \o <<":"," ","_","1">>,                         \* "$sum: _1"
    S_dsum \o <<":"," ","1",".","5","0">>,                 \* "$sum: 1.50"
    S_dsum \o <<" ",".","5">>,                             \* "$sum .5"
    S_dsum \o <<" ","5",".">>,                             \* "$sum 5."
    S_dsum \o <<" ","1","e","2">>,                         \* "$sum 1e2"
    S_dsum \o <<" ","1",".","2",".","3">>,                 \* "$sum 1.2.3"
    S_dsum \o <<" ","n","a","n">>,                         \* "$sum nan"
    S_dsum \o <<" ","I","n","f">>,                         \* "$sum Inf"
    S_dsum \o <<":"," ","-","1">>,                         \* "$sum: -1"
    S_dsum \o <<":"," ","'","a"," ","b","'">>,             \* "$sum: 'a b'"
    S_dsum \o <<":"," ","\"","'","x","'","\"">>,           \* "$sum: \"'x'\""
    S_dSUM \o <<":"," ","1",".","5">>,                     \* "$SUM: 1.5"
    <<" ","\t">> \o S_dsum \o <<":","1"," ","\n">>,        \* " \t$sum:1 \n"
    <<"a",":","b",":","c">>,                               \* "a:b:c"
    <<"$","a",":","b",":","c">>,                           \* "$a:b:c"
    <<" ",":"," ","$","s","u","m">>                        \* " : $sum"
}

Strings == HeadTailStrings \cup ExtraStrings

K_x     == <<"x">>
K_y     == <<"y">>
K_z     == <<"z">>
K_match == <<"$","m","a","t","c","h">>
K_limit == <<"$","l","i","m","i","t">>

Acc(op, operand) == JObj(<< Item(op, operand) >>)

\* values of a "$group" field that are no strings
OtherValues == {
    JInt(1), JNull, JFloat([kind |-> "fin", m |-> 15, e |-> -1]),
    JList(<< JStr(S_sum1) >>),
    JObj(<< >>),
    JObj(<< Item(<<"c","u","s","t","o","m">>, JStr(<<"5">>)) >>),
    JObj(<< Item(<<"n">>, JInt(1)), Item(S_dsum, JInt(1)) >>),
    Acc(S_dsum, JInt(1)),
    Acc(S_davg, JStr(S_price)),
    Acc(S_dsum, JStr(S_sum1)),
    Acc(<<"$","s","t","d","D","e","v","P","o","p">>, JStr(S_price))
}

Values == { JStr(s) : s \in Strings } \cup OtherValues

Stage(k, v) == JObj(<< Item(k, v) >>)

\* one "$group" stage with one field besides "_id", for every value
OneFieldPipelines ==
    { << Stage(K_group, JObj(<< Item(K_id, JStr(S_cat)), Item(K_x, v) >>)) >> :
        v \in Values }

\* stages of every shape: without "$group", with a "$group" that has "_id"
\* only, several fields, "_id" in the middle or missing, a "$group" that is
\* no object, and a "$group" beside another key
SomeStages == {
    Stage(K_match, JObj(<< Item(K_x, JStr(S_sum1)) >>)),
    Stage(K_limit, JInt(5)),
    Stage(K_group, JObj(<< Item(K_id, JStr(S_sum1)) >>)),
    Stage(K_group, JObj(<< Item(K_id, JNull), Item(K_x, Acc(S_dsum, JInt(1))),
                           Item(K_y, JStr(S_sum1)) >>)),
    Stage(K_group, JObj(<< Item(K_x, JStr(S_price)), Item(K_id, JStr(S_dsum)),
                           Item(K_y, JStr(S_custom)),
                           Item(K_z, JStr(S_dSUM \o <<":"," ","1">>)) >>)),
    Stage(K_group, JObj(<< Item(K_x, Acc(S_dsum, JInt(1))),
                           Item(K_y, Acc(S_davg, JStr(S_price))) >>)),
    Stage(K_group, JStr(S_sum1)),
    Stage(K_group, JNull),
    JObj(<< Item(K_match, JObj(<< Item(K_x, JStr(S_sum1)) >>)),
            Item(K_group, JObj(<< Item(K_id, JNull), Item(K_x, JStr(S_dsum)) >>)),
            Item(K_limit, JInt(5)) >>)
}

ManyStagePipelines == SeqsUpTo(SomeStages, MaxStages)

\* pipelines with several offending fields, for the order validate_pipeline
\* meets them in
SeveralFailures == {
    << Stage(K_group, JObj(<< Item(K_x, Acc(S_dsum, JInt(1))) >>)),
       Stage(K_group, JObj(<< Item(K_id, JStr(S_cat)), Item(K_x, JObj(<< >>)),
                              Item(K_y, JStr(S_price)) >>)) >>,
    << Stage(K_group, JObj(<< Item(K_id, JInt(1)), Item(K_x, JInt(1)),
                              Item(K_y, JObj(<< >>)) >>)),
       Stage(K_group, JObj(<< Item(K_x, JObj(<< >>)) >>)) >>,
    << Stage(K_limit, JInt(5)),
       Stage(K_group, JObj(<< Item(K_x, JObj(<< Item(<<"n">>, JInt(1)) >>)),
                              Item(K_y, JNull) >>)),
       Stage(K_group, JNull) >>
}

Pipelines == OneFieldPipelines \cup ManyStagePipelines \cup SeveralFailures

----------------------------------------------------------------------------
(* fix_pipeline and validate_pipeline applied to a generated pipeline       *)

None == [exc |-> "unset"]

Init ==
    /\ HeapIdle /\ LogIdle /\ GatherIdle /\ SqlIdle /\ MongoIdle /\ AgentIdle
    /\ pc = "start"
    /\ pipeline \in Pipelines
    /\ copy = "none"
    /\ fixed = None
    /\ refixed = None
    /\ verdict = None
    /\ qtype = "aggregate"
    /\ calls = <<>>
    /\ answer = "none"

\* fixed = fix_pipeline(pipeline), by either copy
Fix(cp) ==
    /\ pc = "start"
    /\ copy' = cp
    /\ fixed' = FixPipelineOf(cp, pipeline)
    /\ pc' = "fixed"
    /\ UNCHANGED <<pipeline, refixed, verdict, qtype, calls, answer>>
    /\ UNCHANGED outsidePure

FixUnified == Fix("unified")

FixArchived == Fix("archived")

\* validate_pipeline(fixed)
Validate ==
    /\ pc = "fixed"
    /\ fixed.exc = "none"
    /\ verdict' = validate_pipeline(fixed.value)
    /\ pc' = "validated"
    /\ UNCHANGED <<copy, pipeline, fixed, refixed, qtype, calls, answer>>
    /\ UNCHANGED outsidePure

\* validate_pipeline(pipeline), on the generated pipeline as it is
ValidateRaw ==
    /\ pc = "start"
    /\ verdict' = validate_pipeline(pipeline)
    /\ pc' = "validated_raw"
    /\ UNCHANGED <<copy, pipeline, fixed, refixed, qtype, calls, answer>>
    /\ UNCHANGED outsidePure

\* fix_pipeline(fixed), by the same copy
FixAgain ==
    /\ pc = "validated"
    /\ refixed' = FixPipelineOf(copy, fixed.value)
    /\ pc' = "refixed"
    /\ UNCHANGED <<copy, pipeline, fixed, verdict, qtype, calls, answer>>
    /\ UNCHANGED outsidePure

Next == FixUnified \/ FixArchived \/ Validate \/ ValidateRaw \/ FixAgain

Spec == Init /\ [][Next]_vars

TypeOK ==
    /\ pc \in {"start", "fixed", "validated", "validated_raw", "refixed"}
    /\ copy \in Copies \cup {"none"}
    /\ fixed.exc \in {"unset", "none", "AttributeError"}
    /\ verdict.exc \in {"unset", "none", "ValueError", "AttributeError"}

----------------------------------------------------------------------------
(* What the properties speak of, stated without the code's helpers          *)

Min(S) == CHOOSE n \in S : \A k \in S : n <= k
Max(S) == CHOOSE n \in S : \A k \in S : n >= k

\* the text between its first and its last character that is no whitespace
Trimmed(s) ==
    LET ink == {i \in 1..Len(s) : s[i] \notin Whitespace}
    IN  IF ink = {} THEN <<>> ELSE SubSeq(s, Min(ink), Max(ink))

BeginsWithSigil(s) == s # <<>> /\ s[1] = "$"

KeysOf(d) == [j \in 1..Len(d.items) |-> d.items[j].k]

HasGroup(stage) == HasKey(stage, K_group)
GroupOf(stage)  == Get(stage, K_group)

\* <<i, j>>: field j of the "$group" object of stage i
Slots(p) ==
    UNION { { <<i, j>> : j \in 1..Len(GroupOf(p[i]).items) } :
            i \in { n \in 1..Len(p) : IsDict(p[n]) /\ HasGroup(p[n])
                                       /\ IsDict(GroupOf(p[n])) } }

KeyAt(p, sl) == GroupOf(p[sl[1]]).items[sl[2]].k
ValAt(p, sl) == GroupOf(p[sl[1]]).items[sl[2]].v

\* the slots of the fields other than "_id"
FieldSlots(p) == { sl \in Slots(p) : KeyAt(p, sl) # K_id }

\* fix_pipeline has returned (and not raised)
Returned == pc \in {"fixed", "validated", "refixed"} /\ fixed.exc = "none"

\* a single-key mapping whose key begins with "$"
IsAccumulatorObject(v) ==
    IsDict(v) /\ Len(v.items) = 1 /\ BeginsWithSigil(v.items[1].k)

\* a mapping with at least one key that begins with "$"
HasSigilKey(v) ==
    IsDict(v) /\ \E j \in 1..Len(v.items) : BeginsWithSigil(v.items[j].k)

\* every "$group" is an object whose fields other than "_id" satisfy Good
EveryField(p, Good(_)) ==
    /\ \A i \in 1..Len(p) : HasGroup(p[i]) => IsDict(GroupOf(p[i]))
    /\ \A sl \in FieldSlots(p) : Good(ValAt(p, sl))

WellFormed(p) == EveryField(p, IsAccumulatorObject)

GroupsAccumulate(p) == EveryField(p, HasSigilKey)

----------------------------------------------------------------------------
(* C1..C10                                                                  *)

\* C1: on a pipeline whose "$group" fields other than "_id" are all
\* accumulator objects already, fix_pipeline returns a pipeline equal to its
\* argument and validate_pipeline succeeds on it.
C1_WellFormedUnchanged ==
    WellFormed(pipeline) =>
        /\ pc \in {"fixed", "validated", "refixed"} =>
                fixed = [exc |-> "none", value |-> pipeline]
        /\ pc \in {"validated", "validated_raw", "refixed"} => verdict = Passed

C1_Witness ==
    /\ pc = "validated"
    /\ WellFormed(pipeline)
    /\ FieldSlots(pipeline) # {}
    /\ fixed.value = pipeline
    /\ verdict = Passed

\* C2: fix_pipeline is idempotent: applied to its own result it returns that
\* result again, whichever path (pattern, colon split, unchanged) each value took.
C2_Idempotent == pc = "refixed" => refixed = fixed

C2_Witness ==
    /\ pc = "refixed"
    /\ refixed = fixed
    /\ \E a, b, c \in FieldSlots(pipeline) :
        /\ IsStr(ValAt(pipeline, a)) /\ acc_pattern(strip(ValAt(pipeline, a).s)).matched
        /\ ValAt(fixed.value, a) # ValAt(pipeline, a)
        /\ IsStr(ValAt(pipeline, b)) /\ ~acc_pattern(strip(ValAt(pipeline, b).s)).matched
        /\ ValAt(fixed.value, b) # ValAt(pipeline, b)
        /\ IsStr(ValAt(pipeline, c)) /\ ValAt(fixed.value, c) = ValAt(pipeline, c)

\* C3: validate_pipeline succeeds exactly when every field other than "_id"
\* of every "$group" stage is a mapping with at least one key beginning with
\* "$"; so when it succeeds on fix_pipeline's result, that result is such.
C3_ValidateExactly ==
    /\ pc = "validated_raw" => (verdict = Passed <=> GroupsAccumulate(pipeline))
    /\ pc \in {"validated", "refixed"} =>
            (verdict = Passed <=> GroupsAccumulate(fixed.value))

C3_Witness ==
    /\ pc = "validated"
    /\ verdict = Passed
    /\ ~GroupsAccumulate(pipeline)
    /\ GroupsAccumulate(fixed.value)

\* C5: fix_pipeline changes nothing but fields, other than "_id", of "$group"
\* stages whose value is a string that begins with "$" once trimmed: stages
\* without "$group", the other keys of a stage, the "_id" entry, values that
\* are no strings and strings that do not begin with "$" come back equal,
\* and every "$group" keeps its field names.
C5_Frame ==
    Returned =>
        /\ Len(fixed.value) = Len(pipeline)
        /\ \A i \in 1..Len(pipeline) :
            LET a == pipeline[i]
                b == fixed.value[i]
            IN  /\ IsDict(b) /\ KeysOf(b) = KeysOf(a)
                /\ \A n \in 1..Len(a.items) :
                        a.items[n].k # K_group => b.items[n] = a.items[n]
                /\ ~HasGroup(a) => b = a
                /\ HasGroup(a) =>
                        /\ IsDict(GroupOf(b))
                        /\ KeysOf(GroupOf(b)) = KeysOf(GroupOf(a))
        /\ \A sl \in Slots(pipeline) :
            LET v == ValAt(pipeline, sl)
            IN  (\/ KeyAt(pipeline, sl) = K_id
                 \/ ~IsStr(v)
                 \/ ~BeginsWithSigil(Trimmed(v.s)))
                => ValAt(fixed.value, sl) = v

C5_Witness ==
    /\ Returned
    /\ \E i \in 1..Len(pipeline) :
        /\ HasGroup(pipeline[i])
        /\ Len(pipeline[i].items) > 1
        /\ fixed.value[i] # pipeline[i]
    /\ \E sl \in FieldSlots(pipeline) :
        /\ IsStr(ValAt(pipeline, sl))
        /\ contains(ValAt(pipeline, sl).s, ":")
        /\ ValAt(fixed.value, sl) = ValAt(pipeline, sl)

\* the text between its first and its last character outside cs
TrimmedOf(s, cs) ==
    LET ink == {i \in 1..Len(s) : s[i] \notin cs}
    IN  IF ink = {} THEN <<>> ELSE SubSeq(s, Min(ink), Max(ink))

\* \$?[a-zA-Z0-9_.]+ : an optional sigil and one or more word characters
IsOperandText(w) ==
    LET body == IF BeginsWithSigil(w) THEN Tail(w) ELSE w
    IN  body # <<>> /\ \A n \in 1..Len(body) : body[n] \in WordChars

\* every way to read t as: operator, separators, at most one quote, operand,
\* at most one quote.  <<operator, operand>> for each.
StrictReadings(t) ==
    { <<AccOps[r[1]], SubSeq(t, Len(AccOps[r[1]]) + r[2] + r[3] + 1, Len(t) - r[4])>> :
        r \in { q \in (1..Len(AccOps)) \X (0..Len(t)) \X (0..1) \X (0..1) :
                LET n0 == Len(AccOps[q[1]])
                    n1 == q[2]
                IN  /\ n0 + n1 + q[3] + q[4] < Len(t)
                    /\ SubSeq(t, 1, n0) = AccOps[q[1]]
                    /\ \A n \in (n0 + 1)..(n0 + n1) : t[n] \in SepChars
                    /\ q[3] = 1 => t[n0 + n1 + 1] \in Quotes
                    /\ q[4] = 1 => t[Len(t)] \in Quotes
                    /\ IsOperandText(SubSeq(t, n0 + n1 + q[3] + 1, Len(t) - q[4])) } }

\* every way to read t as: operator, separators, at most two quotes, with no
\* operand.  The operator for each.
BareReadings(t) ==
    { AccOps[r[1]] :
        r \in { q \in (1..Len(AccOps)) \X (0..2) :
                LET n0 == Len(AccOps[q[1]])
                IN  /\ n0 + q[2] <= Len(t)
                    /\ SubSeq(t, 1, n0) = AccOps[q[1]]
                    /\ \A n \in (n0 + 1)..(Len(t) - q[2]) : t[n] \in SepChars
                    /\ \A n \in (Len(t) - q[2] + 1)..Len(t) : t[n] \in Quotes } }

\* the strict pattern of the copy that ran does not match t
NoStrictMatch(t) ==
    StrictReadings(t) = {} /\ (copy = "unified" => BareReadings(t) = {})

\* the integer if the text parses as one, else the float, else the text
NumberOrText(w) ==
    IF py_int(w).ok THEN JInt(py_int(w).n)
    ELSE IF py_float(w).ok THEN JFloat(py_float(w))
    ELSE JStr(w)

\* field sl of the result is there and equals v
ResultIs(sl, v) == sl \in Slots(fixed.value) /\ ValAt(fixed.value, sl) = v

\* every field of the argument whose value is the string s has v in the result
Becomes(s, v) ==
    \A sl \in FieldSlots(pipeline) : ValAt(pipeline, sl) = JStr(s) => ResultIs(sl, v)

S_custom_key == <<"c","u","s","t","o","m">>

\* C6 as claimed: "custom: 5" takes the fallback split and becomes {"custom": "5"}.
C6_CustomIsSplit ==
    Returned => Becomes(S_custom, Acc(S_custom_key, JStr(<<"5">>)))

\* C6 amended: "custom: 5" does not begin with "$" and is returned unchanged;
\* the fallback split is for strings that begin with "$": "$custom: 5"
\* becomes {"$custom": "5"}, key verbatim and operand the string "5".
C6_CustomUnchanged ==
    Returned =>
        /\ Becomes(S_custom, JStr(S_custom))
        /\ Becomes(<<"$">> \o S_custom, Acc(<<"$">> \o S_custom_key, JStr(<<"5">>)))

C6_Witness ==
    /\ Returned
    /\ \E sl \in FieldSlots(pipeline) :
        /\ ValAt(pipeline, sl) = JStr(S_custom)
        /\ ValAt(fixed.value, sl) = JStr(S_custom)

\* C7 as claimed: fix_pipeline never raises; a stage whose "$group" value is
\* no object is returned unchanged.
C7_NeverRaises ==
    pc \in {"fixed", "validated", "refixed"} =>
        /\ fixed.exc = "none"
        /\ \A i \in 1..Len(pipeline) :
            (HasGroup(pipeline[i]) /\ ~IsDict(GroupOf(pipeline[i])))
                => fixed.value[i] = pipeline[i]

\* C8: a value that, trimmed, reads as operator, separator, optional quote
\* and operand becomes {operator: operand}, the operand an integer if its
\* text parses as one, else a float, else the text; "$sum: 1" becomes
\* {"$sum": 1} and "$avg $price" becomes {"$avg": "$price"}.
C8_StrictOperand ==
    Returned =>
        /\ \A sl \in FieldSlots(pipeline) :
            LET v == ValAt(pipeline, sl)
            IN  IsStr(v) =>
                    \A rd \in StrictReadings(Trimmed(v.s)) :
                        ResultIs(sl, Acc(rd[1], NumberOrText(rd[2])))
        /\ Becomes(S_sum1, Acc(S_dsum, JInt(1)))
        /\ Becomes(S_davg \o <<" ">> \o S_price, Acc(S_davg, JStr(S_price)))
        /\ Becomes(S_dsum \o <<":"," ","1",".","5","0">>,
                   Acc(S_dsum, JFloat([kind |-> "fin", m |-> 15, e |-> -1])))

C8_Witness ==
    /\ Returned
    /\ copy = "unified"
    /\ \E sl \in FieldSlots(pipeline) :
        /\ ValAt(pipeline, sl) = JStr(S_sum1)
        /\ ValAt(fixed.value, sl) = Acc(S_dsum, JInt(1))

\* C9: in client/unified_agent.py a value that is a bare operator of the
\* vocabulary, such as "$sum", becomes {operator: "$value"}, a string.
C9_BareOperator ==
    (Returned /\ copy = "unified") =>
        \A sl \in FieldSlots(pipeline) :
            LET v == ValAt(pipeline, sl)
            IN  \A n \in 1..Len(AccOps) :
                    (IsStr(v) /\ Trimmed(v.s) = AccOps[n])
                        => ResultIs(sl, Acc(AccOps[n], JStr(<<"$","v","a","l","u","e">>)))

C9_Witness ==
    /\ Returned
    /\ copy = "unified"
    /\ \E sl \in FieldSlots(pipeline) :
        /\ ValAt(pipeline, sl) = JStr(S_dsum)
        /\ ValAt(fixed.value, sl) = Acc(S_dsum, JStr(DefaultOperand))

\* what the colon split of t gives: the trimmed text before the first colon
\* as the key, the trimmed text after it without surrounding quotes as a string
SplitAtFirstColon(t) ==
    LET c == Min({n \in 1..Len(t) : t[n] = ":"})
    IN  Acc(Trimmed(SubSeq(t, 1, c - 1)),
            JStr(TrimmedOf(Trimmed(SubSeq(t, c + 1, Len(t))), Quotes)))

\* C10: a value that begins with "$" once trimmed, does not match the strict
\* pattern and has a colon becomes {left: right}: left the trimmed text before
\* the first colon, verbatim, right the trimmed text after it without
\* surrounding quotes, always a string; "$SUM: 1" becomes {"$SUM": "1"}.
C10_ColonSplit ==
    Returned =>
        /\ \A sl \in FieldSlots(pipeline) :
            LET v == ValAt(pipeline, sl)
            IN  (/\ IsStr(v)
                 /\ BeginsWithSigil(Trimmed(v.s))
                 /\ NoStrictMatch(Trimmed(v.s))
                 /\ \E n \in 1..Len(v.s) : v.s[n] = ":")
                => ResultIs(sl, SplitAtFirstColon(Trimmed(v.s)))
        /\ Becomes(S_dSUM \o <<":"," ","1">>, Acc(S_dSUM, JStr(<<"1">>)))

C10_Witness ==
    /\ Returned
    /\ \E sl \in FieldSlots(pipeline) :
        /\ ValAt(pipeline, sl) = JStr(S_dSUM \o <<":"," ","1">>)
        /\ ValAt(fixed.value, sl) = Acc(S_dSUM, JStr(<<"1">>))

----------------------------------------------------------------------------
(* The two callers: execute_subtask (archived_sample/client/mongo_agent.py) *)
(* and UnifiedAgent.execute_mongo_step (client/unified_agent.py).  copy     *)
(* says which one runs; each uses its own copy of fix_pipeline.             *)

QueryTypes == {"find", "aggregate", "count"}

\* the pipelines a generated query may carry; <<>> also stands for None
CallerPipelines == ManyStagePipelines \cup
    { << Stage(K_group, JObj(<< Item(K_id, JStr(S_cat)), Item(K_x, v) >>)) >> :
        v \in { JStr(S_sum1), JStr(S_price), JStr(S_dsum), JStr(S_custom),
                JStr(S_dSUM \o <<":"," ","1">>), JInt(1), JObj(<< >>),
                Acc(S_dsum, JInt(1)) } }

\* the pipeline the query holds once fix_pipeline has been assigned to it
CurrentPipeline == IF fixed.exc = "none" THEN fixed.value ELSE pipeline

\* the tool a query type is sent to
ToolOf(q) ==
    CASE q = "find"  -> "run_find_query"
      [] q = "count" -> "count_documents"
      [] OTHER       -> "run_aggregate_query"

\* run_aggregate_query's rule for "$group": every field other than "_id"
\* must be an accumulator object such as {"$sum": "$price"}
EngineAccepts(p) ==
    \A i \in 1..Len(p) :
        HasKey(p[i], K_group) =>
            /\ IsDict(Get(p[i], K_group))
            /\ \A j \in 1..Len(Get(p[i], K_group).items) :
                LET f == Get(p[i], K_group).items[j]
                IN  f.k # K_id =>
                        /\ IsDict(f.v)
                        /\ Len(f.v.items) = 1
                        /\ startswith(f.v.items[1].k, <<"$">>)

CallerInit ==
    /\ HeapIdle /\ LogIdle /\ GatherIdle /\ SqlIdle /\ MongoIdle /\ AgentIdle
    /\ pc = "generate"
    /\ copy \in Copies
    /\ pipeline = <<>>
    /\ fixed = None
    /\ refixed = None
    /\ verdict = None
    /\ qtype = "none"
    /\ calls = <<>>
    /\ answer = "none"

\* str(e) of a failed model call or model_validate_json
GenerationError == "generation failed"

\* the model call and model_validate_json give a query
Generate ==
    /\ pc = "generate"
    /\ \E q \in QueryTypes, p \in CallerPipelines :
        /\ q # "aggregate" => p = <<>>
        /\ qtype' = q
        /\ pipeline' = p
    /\ pc' = "fix"
    /\ log' = Append(log, "generate")
    /\ UNCHANGED <<copy, fixed, refixed, verdict, calls, answer, detail>>
    /\ UNCHANGED outsideCaller

\* the model call or model_validate_json raises: execute_subtask catches it,
\* execute_mongo_step lets it propagate
GenerateFails ==
    /\ pc = "generate"
    /\ answer' = IF copy = "archived" THEN "Error generating query" ELSE "raised"
    /\ pc' = "done"
    /\ log' = Append(log, "generate")
    /\ detail' = GenerationError
    /\ UNCHANGED <<copy, pipeline, fixed, refixed, verdict, qtype, calls>>
    /\ UNCHANGED outsideCaller

CallFix_twice ==
    /\ pc = "fix"
    /\ IF qtype = "aggregate" /\ pipeline # <<>>
       THEN \E once \in {FixPipelineOf(copy, pipeline)} :
            \E r \in {IF once.exc # "none" THEN once
                      ELSE FixPipelineOf(copy, once.value)} :
                /\ fixed' = r
                /\ log' = log \o <<"fix_pipeline", "fix_pipeline">>
                /\ answer' = IF r.exc = "none" THEN answer
                             ELSE IF copy = "archived" THEN "Error generating query"
                             ELSE "raised"
                /\ detail' = IF r.exc = "none" THEN detail ELSE r.exc
                /\ pc' = IF r.exc # "none" THEN "done"
                         ELSE IF copy = "archived" THEN "validate"
                         ELSE "call"
       ELSE /\ pc' = "call"
            /\ UNCHANGED <<fixed, answer, log, detail>>
    /\ UNCHANGED <<copy, pipeline, refixed, verdict, qtype, calls>>
    /\ UNCHANGED outsideCaller

\* if query_type == "aggregate" and pipeline: pipeline = fix_pipeline(pipeline)
CallFix ==
    /\ pc = "fix"
    /\ IF qtype = "aggregate" /\ pipeline # <<>>
       THEN \E r \in {FixPipelineOf(copy, pipeline)} :
                /\ fixed' = r
                /\ log' = Append(log, "fix_pipeline")
                /\ answer' = IF r.exc = "none" THEN answer
                             ELSE IF copy = "archived" THEN "Error generating query"
                             ELSE "raised"
                /\ detail' = IF r.exc = "none" THEN detail ELSE r.exc
                /\ pc' = IF r.exc # "none" THEN "done"
                         ELSE IF copy = "archived" THEN "validate"
                         ELSE "call"
       ELSE /\ pc' = "call"
            /\ UNCHANGED <<fixed, answer, log, detail>>
    /\ UNCHANGED <<copy, pipeline, refixed, verdict, qtype, calls>>
    /\ UNCHANGED outsideCaller

\* execute_subtask only: validate_pipeline(pipeline), inside the same try
CallValidate ==
    /\ pc = "validate"
    /\ verdict' = validate_pipeline(fixed.value)
    /\ log' = Append(log, "validate_pipeline")
    /\ IF verdict'.exc # "none"
       THEN answer' = "Error generating query" /\ detail' = verdict'.exc /\ pc' = "done"
       ELSE answer' = answer /\ detail' = detail /\ pc' = "call"
    /\ UNCHANGED <<copy, pipeline, fixed, refixed, qtype, calls>>
    /\ UNCHANGED outsideCaller

\* what the engine says when it fails
EngineErrors == {"ns not found", "unknown group operator"}

\* the text of query_result.content[0].text that json.loads / int can read
Documents == "documents"

\* what `await session.call_tool(...)` does: it raises with a text, or it
\* returns a result whose first content is a text: the documents, the
\* engine's error (a tool result flagged as an error), or any other text
Responses ==
    { [kind |-> "exception", text |-> e] : e \in EngineErrors } \cup
    { [kind |-> "content", text |-> x] : x \in {Documents, "no json"} \cup EngineErrors }

\* json.loads(content_text), int(content_text) for a count: the message of
\* the exception on a text they cannot read
ParseError(q) ==
    IF q = "count" THEN "invalid literal for int() with base 10"
    ELSE "Expecting value: line 1 column 1 (char 0)"

\* str(e) in the except clause of the tool call
ExceptionText(q, r) == IF r.kind = "exception" THEN r.text ELSE ParseError(q)

\* session.call_tool(...) and the parsing of its content: the engine cannot
\* answer a pipeline it does not accept
CallTool ==
    /\ pc = "call"
    /\ \E r \in Responses :
        /\ (r.text = Documents /\ qtype = "aggregate") => EngineAccepts(CurrentPipeline)
        /\ calls' = Append(calls, [tool |-> ToolOf(qtype), pipeline |-> CurrentPipeline,
                                   response |-> r])
        /\ IF r.kind = "content" /\ r.text = Documents
           THEN answer' = "ok" /\ detail' = detail
           ELSE /\ answer' = IF copy = "archived" THEN "Error executing query"
                             ELSE "Error"
                /\ detail' = ExceptionText(qtype, r)
    /\ log' = Append(log, "call_tool")
    /\ pc' = "done"
    /\ UNCHANGED <<copy, pipeline, fixed, refixed, verdict, qtype>>
    /\ UNCHANGED outsideCaller

CallerNext == Generate \/ GenerateFails \/ CallFix \/ CallValidate \/ CallTool

SpecCaller == CallerInit /\ [][CallerNext]_vars

\* C4 as claimed: in every caller validate_pipeline runs on what fix_pipeline
\* returned before run_aggregate_query is called, and a pipeline on which it
\* fails is never sent: a malformed "$group" ends the step with the
\* validation error, without a tool call and without an engine error.
C4_ValidatedBeforeSent ==
    /\ \A n \in 1..Len(calls) :
        (calls[n].tool = "run_aggregate_query" /\ fixed.exc = "none") =>
            validate_pipeline(calls[n].pipeline) = Passed
    /\ (pc = "done" /\ fixed.exc = "none" /\ validate_pipeline(fixed.value) # Passed) =>
            /\ verdict = validate_pipeline(fixed.value)
            /\ calls = <<>>
            /\ answer \notin {"Error", "Error executing query"}

----------------------------------------------------------------------------
(* C11..C14: fix_pipeline and validate_pipeline as functions                *)

\* a string that begins with "$" once trimmed, that the strict pattern of the
\* copy that ran does not match and that holds no colon
Unrepairable(v) ==
    /\ IsStr(v)
    /\ BeginsWithSigil(Trimmed(v.s))
    /\ NoStrictMatch(Trimmed(v.s))
    /\ \A n \in 1..Len(v.s) : v.s[n] # ":"

\* every "$group" of p holds an object
GroupsAreObjects(p) ==
    \A i \in 1..Len(p) : HasGroup(p[i]) => IsDict(GroupOf(p[i]))

UnrepairableSlots == { sl \in FieldSlots(pipeline) : Unrepairable(ValAt(pipeline, sl)) }

\* C11: a "$group" field whose value is a string that begins with "$", that
\* the strict pattern does not match and that holds no colon (such as
\* "$price") comes back from fix_pipeline unchanged, with no exception;
\* validate_pipeline then fails on the repaired pipeline, and when it names
\* this field the reason is that its value is no object.
C11_SigilStringLeftAlone ==
    /\ (pc \in {"fixed", "validated", "refixed"} /\ UnrepairableSlots # {}
            /\ GroupsAreObjects(pipeline)) => fixed.exc = "none"
    /\ Returned => \A sl \in UnrepairableSlots : ResultIs(sl, ValAt(pipeline, sl))
    /\ (pc \in {"validated", "refixed"} /\ UnrepairableSlots # {}) =>
            /\ verdict.exc = "ValueError"
            /\ \A sl \in UnrepairableSlots :
                (verdict.stage = sl[1] - 1 /\ verdict.field = KeyAt(pipeline, sl))
                    => verdict.check = "isinstance"
            /\ (\A sl \in FieldSlots(pipeline) : sl \in UnrepairableSlots) =>
                \E sl \in UnrepairableSlots :
                    /\ verdict.stage = sl[1] - 1
                    /\ verdict.field = KeyAt(pipeline, sl)

C11_Witness ==
    /\ pc = "validated"
    /\ \E sl \in UnrepairableSlots :
        /\ ValAt(pipeline, sl) = JStr(S_price)
        /\ ResultIs(sl, JStr(S_price))
        /\ verdict = [exc |-> "ValueError", stage |-> sl[1] - 1,
                      field |-> KeyAt(pipeline, sl), check |-> "isinstance"]

\* validate_pipeline has run, on Validated
HasVerdict == pc \in {"validated", "validated_raw", "refixed"}

Validated == IF pc = "validated_raw" THEN pipeline ELSE fixed.value

\* the fields other than "_id" whose value is no object, or is an object
\* with no key that begins with "$"
Offending(p) == { sl \in FieldSlots(p) : ~HasSigilKey(ValAt(p, sl)) }

\* the first slot of S in pipeline order: by stage, then by field
FirstSlot(S) ==
    CHOOSE sl \in S : \A o \in S : sl[1] < o[1] \/ (sl[1] = o[1] /\ sl[2] <= o[2])

\* C12: when validate_pipeline fails, its error names the (0-based) index of
\* the stage and the name of the first offending field in pipeline order;
\* the reason is the isinstance message exactly when that value is no
\* object and the operators message exactly when it is an object (the empty
\* one included) with no key that begins with "$".
C12_FirstOffendingField ==
    HasVerdict =>
        /\ (Offending(Validated) # {} /\ GroupsAreObjects(Validated))
                => verdict.exc = "ValueError"
        /\ verdict.exc = "ValueError" =>
            /\ Offending(Validated) # {}
            /\ LET sl == FirstSlot(Offending(Validated))
                   v  == ValAt(Validated, sl)
               IN  /\ verdict.stage = sl[1] - 1
                   /\ verdict.field = KeyAt(Validated, sl)
                   /\ verdict.check = "isinstance" <=> ~IsDict(v)
                   /\ verdict.check = "operators" <=>
                        (IsDict(v) /\ \A j \in 1..Len(v.items) :
                                        ~BeginsWithSigil(v.items[j].k))

C12_Witness ==
    /\ HasVerdict
    /\ verdict.exc = "ValueError"
    /\ verdict.check = "operators"
    /\ ValAt(Validated, FirstSlot(Offending(Validated))) = JObj(<< >>)
    /\ Cardinality(Offending(Validated)) > 1
    /\ verdict.stage = 1

\* b is stage a, possibly repaired: the same keys in the same order, the
\* values of the other keys equal, the same field names under "$group", and
\* each field either equal or a one-key object, its key beginning with "$",
\* in the place of a string that begins with "$"
CameFrom(a, b) ==
    /\ IsDict(b) /\ KeysOf(b) = KeysOf(a)
    /\ \A n \in 1..Len(a.items) : a.items[n].k # K_group => b.items[n] = a.items[n]
    /\ HasGroup(a) =>
        /\ IsDict(GroupOf(b))
        /\ KeysOf(GroupOf(b)) = KeysOf(GroupOf(a))
        /\ \A j \in 1..Len(GroupOf(a).items) :
            LET v == GroupOf(a).items[j].v
                w == GroupOf(b).items[j].v
            IN  \/ w = v
                \/ /\ IsStr(v) /\ BeginsWithSigil(Trimmed(v.s))
                   /\ IsAccumulatorObject(w)

\* C13: fix_pipeline returns as many stages as it was given, in the same
\* order: stage i of the result is stage i of the argument, possibly
\* repaired.
C13_StagesKeptInOrder ==
    Returned =>
        /\ Len(fixed.value) = Len(pipeline)
        /\ \A i \in 1..Len(pipeline) : CameFrom(pipeline[i], fixed.value[i])

C13_Witness ==
    /\ Returned
    /\ Len(pipeline) = 2
    /\ fixed.value # pipeline
    /\ CameFrom(pipeline[1], fixed.value[1])
    /\ ~CameFrom(pipeline[1], fixed.value[2])
    /\ ~CameFrom(pipeline[2], fixed.value[1])

----------------------------------------------------------------------------
(* fix_pipeline on the heap: lists and dicts are objects with an address,   *)
(* a container holds references to the mutable values in it, and            *)
(* concurrent invocations run one loop iteration at a time                  *)

NTasks == 2

Tasks == 1..NTasks

\* the arguments of the invocations
HeapPipelines == {
    << Stage(K_match, JObj(<< Item(K_x, JStr(S_sum1)) >>)),
       Stage(K_group, JObj(<< Item(K_id, JObj(<< Item(K_x, JStr(S_cat)) >>)),
                              Item(K_x, JStr(S_sum1)),
                              Item(K_y, Acc(S_davg, JStr(S_price))) >>)) >>,
    << Stage(K_group, JObj(<< Item(K_id, JStr(S_cat)), Item(K_x, JStr(S_dsum)),
                              Item(K_y, JStr(S_price)) >>)) >>,
    << JObj(<< Item(K_group, JObj(<< Item(K_x, JList(<< JStr(S_sum1) >>)),
                                     Item(K_y, JStr(<<"$">> \o S_custom)) >>)),
               Item(K_limit, JInt(5)) >>),
       Stage(K_group, JNull) >>
}

Ref(a) == [t |-> "ref", a |-> a]

IsRef(v) == v.t = "ref"

\* a list or a dict is mutable; str, int, float and None are not
IsMutable(v) == v.t \in {"obj", "list"}

\* a container holds a reference to a mutable value and an immutable value
\* itself
Box(addr, v) == IF IsMutable(v) THEN Ref(addr) ELSE v

\* addresses of argument a: the list, stage i, the value of its n-th key,
\* the value of the j-th field of that
In(a) == <<"in", a>>

\* the object at an address of argument a, whose value is p
ObjectOf(p, addr) ==
    CASE Len(addr) = 2 ->
            JList([i \in 1..Len(p) |-> Ref(addr \o <<i>>)])
      [] Len(addr) = 3 ->
            LET stage == p[addr[3]]
            IN  JObj([n \in 1..Len(stage.items) |->
                        Item(stage.items[n].k,
                             Box(addr \o <<n>>, stage.items[n].v))])
      [] Len(addr) = 4 ->
            LET v == p[addr[3]].items[addr[4]].v
            IN  IF IsDict(v)
                THEN JObj([j \in 1..Len(v.items) |->
                            Item(v.items[j].k, Box(addr \o <<j>>, v.items[j].v))])
                ELSE v
      [] OTHER -> p[addr[3]].items[addr[4]].v.items[addr[5]].v

AddressesOf(a, p) ==
    LET stages == { In(a) \o <<i>> : i \in 1..Len(p) }
        values == UNION { { In(a) \o <<i, n>> :
                            n \in { m \in 1..Len(p[i].items) :
                                        IsMutable(p[i].items[m].v) } } :
                          i \in 1..Len(p) }
        fields == UNION { { x \o <<j>> :
                            j \in { m \in 1..Len(p[x[3]].items[x[4]].v.items) :
                                        IsMutable(p[x[3]].items[x[4]].v.items[m].v) } } :
                          x \in { y \in values : IsDict(p[y[3]].items[y[4]].v) } }
    IN  {In(a)} \cup stages \cup values \cup fields

\* the heap that holds the arguments ps and nothing else
LoadArgs(ps) ==
    [x \in UNION { AddressesOf(a, ps[a]) : a \in 1..Len(ps) } |->
        ObjectOf(ps[x[2]], x)]

\* the value an object stands for, references followed
RECURSIVE Unload(_, _)
Unload(h, v) ==
    CASE v.t = "ref"  -> Unload(h, h[v.a])
      [] v.t = "obj"  -> JObj([n \in 1..Len(v.items) |->
                                Item(v.items[n].k, Unload(h, v.items[n].v))])
      [] v.t = "list" -> JList([n \in 1..Len(v.elems) |-> Unload(h, v.elems[n])])
      [] OTHER        -> v

\* heap[a] = o
Store(h, a, o) == [x \in DOMAIN h \cup {a} |-> IF x = a THEN o ELSE h[x]]

\* a reference is followed, an immutable value is itself
Deref(h, v) == IF IsRef(v) THEN h[v.a] ELSE v

\* heap[a] = f[a] for every address a of f
StoreAll(h, f) ==
    [x \in DOMAIN h \cup DOMAIN f |-> IF x \in DOMAIN f THEN f[x] ELSE h[x]]

OutputList_module_level(t) == <<"out">>

\* fixed_pipeline = []: the list of invocation t
OutputList(t) == <<"out", t>>

StageCopy_alias(t, i, src) == src

\* new_stage = stage.copy(): a new dict for stage i, whose own address is src
StageCopy(t, i, src) == <<"out", t, i>>

\* new_group = {}
NewGroup(t, i) == <<"out", t, i, 0>>

\* {op: val}, the new value of field j
NewValue(t, i, j) == <<"out", t, i, j>>

HeapInit ==
    /\ pc = "heap"
    /\ LogIdle /\ GatherIdle /\ SqlIdle /\ MongoIdle /\ AgentIdle
    /\ copy \in Copies
    /\ pipeline = << >>
    /\ fixed = None
    /\ refixed = None
    /\ verdict = None
    /\ qtype = "none"
    /\ calls = << >>
    /\ answer = "none"
    /\ args \in [Tasks -> HeapPipelines]
    /\ task \in [Tasks -> [pc : {"idle"}, arg : Tasks, i : {0}]]
    /\ \A t \in Tasks : task[t].arg \in {1, t}
    /\ heap = LoadArgs(args)

\* the call: fixed_pipeline = []
Enter(t) ==
    /\ task[t].pc = "idle"
    /\ heap' = Store(heap, OutputList(t), JList(<< >>))
    /\ task' = [task EXCEPT ![t].pc = "loop", ![t].i = 1]
    /\ UNCHANGED <<args, runVars, outsideHeap>>

\* one iteration of `for stage in pipeline`
Iterate(t) ==
    /\ task[t].pc = "loop"
    /\ task[t].i <= Len(heap[In(task[t].arg)].elems)
    /\ \E i \in {task[t].i} :
       \E src \in {heap[In(task[t].arg)].elems[i].a} :
       \E ns \in {StageCopy(t, i, src)} :
       \E out \in {OutputList(t)} :
       \E h1 \in {Store(heap, ns, heap[src])} :
          IF ~HasKey(h1[ns], K_group)
          THEN /\ heap' = Store(h1, out, JList(Append(h1[out].elems, Ref(ns))))
               /\ task' = [task EXCEPT ![t].i = i + 1]
          ELSE \E group \in {Deref(h1, Get(h1[ns], K_group))} :
               IF ~IsDict(group)
               THEN /\ heap' = h1
                    /\ task' = [task EXCEPT ![t].pc = "raised"]
               ELSE \E new \in {fix_group(copy, group)} :
                    \E made \in {{ j \in 1..Len(new.items) :
                                      IsMutable(new.items[j].v) }} :
                    \E values \in {[x \in { NewValue(t, i, j) : j \in made } |->
                                      new.items[x[4]].v]} :
                    \E new_group \in {JObj([j \in 1..Len(new.items) |->
                                      Item(new.items[j].k,
                                           Box(NewValue(t, i, j), new.items[j].v))])} :
                    \E h2 \in {Store(StoreAll(h1, values), NewGroup(t, i), new_group)} :
                    \E h3 \in {Store(h2, ns, Put(h2[ns], K_group, Ref(NewGroup(t, i))))} :
                       /\ heap' = Store(h3, out, JList(Append(h3[out].elems, Ref(ns))))
                       /\ task' = [task EXCEPT ![t].i = i + 1]
    /\ UNCHANGED <<args, runVars, outsideHeap>>

\* return fixed_pipeline
Return(t) ==
    /\ task[t].pc = "loop"
    /\ task[t].i > Len(heap[In(task[t].arg)].elems)
    /\ task' = [task EXCEPT ![t].pc = "returned"]
    /\ UNCHANGED <<heap, args, runVars, outsideHeap>>

HeapNext ==
    \/ \E t \in Tasks : Enter(t)
    \/ \E t \in Tasks : Iterate(t)
    \/ \E t \in Tasks : Return(t)

SpecHeap == HeapInit /\ [][HeapNext]_vars

\* the pipeline invocation t returned, as a value
Result(t) == Unload(heap, Ref(OutputList(t))).elems

\* C14: fix_pipeline never mutates its argument: the list, every stage dict,
\* every "$group" dict and every value in them stay as they were handed in,
\* also when a field was rewritten and while other invocations run.
C14_ArgumentNotMutated ==
    LET before == LoadArgs(args)
    IN  \A x \in DOMAIN before : x \in DOMAIN heap /\ heap[x] = before[x]

C14_Witness ==
    \E t \in Tasks :
        /\ task[t].pc = "returned"
        /\ Result(t) # args[task[t].arg]
        /\ Unload(heap, Ref(In(task[t].arg))).elems = args[task[t].arg]

\* what fix_pipeline gives on the argument of invocation t when it runs alone
Alone(t) == FixPipelineOf(copy, args[task[t].arg])

\* each invocation ends as it ends when run alone, with the same result
SameAsAlone ==
    \A t \in Tasks :
        /\ task[t].pc = "returned" =>
                Alone(t).exc = "none" /\ Result(t) = Alone(t).value
        /\ task[t].pc = "raised" => Alone(t).exc = "AttributeError"

\* the addresses an object refers to
RefsOf(o) ==
    CASE o.t = "obj"  -> { o.items[n].v.a : n \in { m \in 1..Len(o.items) : IsRef(o.items[m].v) } }
      [] o.t = "list" -> { o.elems[n].a : n \in { m \in 1..Len(o.elems) : IsRef(o.elems[m]) } }
      [] OTHER        -> {}

\* the addresses that can be reached from those of S
RECURSIVE ReachFrom(_, _)
ReachFrom(h, S) ==
    LET T == S \cup UNION { RefsOf(h[x]) : x \in S }
    IN  IF T = S THEN S ELSE ReachFrom(h, T)

ArgumentAddresses == DOMAIN LoadArgs(args)

\* an object invocation t allocated
Owned(t, a) == Len(a) >= 2 /\ a[1] = "out" /\ a[2] = t

\* C18 as claimed: concurrent invocations return what a lone invocation
\* returns, and no mutable object of the argument can be reached from the
\* result.
C18_NothingShared ==
    /\ SameAsAlone
    /\ \A t \in Tasks :
        task[t].pc = "returned" =>
            ReachFrom(heap, {OutputList(t)}) \cap ArgumentAddresses = {}

\* C18 amended: under every interleaving each invocation returns what a lone
\* invocation returns on the same input.  The list, every stage dict, every
\* "$group" dict and every rewritten field value of the result are objects
\* this invocation allocated; the values it did not rewrite (the "_id"
\* value, the other fields, the values of the other keys of a stage) are the
\* very objects of the argument, which fix_pipeline never writes to.
C18_NewContainersSharedValues ==
    /\ SameAsAlone
    /\ \A x \in ArgumentAddresses : x \in DOMAIN heap /\ heap[x] = LoadArgs(args)[x]
    /\ \A t \in Tasks :
        task[t].pc = "returned" =>
            /\ Owned(t, OutputList(t))
            /\ \A i \in 1..Len(heap[OutputList(t)].elems) :
                LET r == heap[OutputList(t)].elems[i]
                    a == heap[heap[In(task[t].arg)].elems[i].a]
                    b == heap[r.a]
                IN  /\ Owned(t, r.a)
                    /\ \A n \in 1..Len(b.items) :
                        IF b.items[n].k # K_group
                        THEN b.items[n].v = a.items[n].v
                        ELSE /\ Owned(t, b.items[n].v.a)
                             /\ LET g == heap[a.items[n].v.a]
                                    w == heap[b.items[n].v.a]
                                IN  \A j \in 1..Len(w.items) :
                                        \/ w.items[j].v = g.items[j].v
                                        \/ /\ IsRef(w.items[j].v)
                                           /\ Owned(t, w.items[j].v.a)
                                           /\ IsStr(g.items[j].v)

C18_Witness ==
    \E t \in Tasks, u \in Tasks :
        /\ t # u
        /\ task[t].pc = "returned" /\ task[u].pc = "returned"
        /\ task[t].arg = task[u].arg
        /\ Result(t) # args[task[t].arg]
        /\ ReachFrom(heap, {OutputList(t)}) \cap ReachFrom(heap, {OutputList(u)})
                \cap ArgumentAddresses # {}

----------------------------------------------------------------------------
(* C15: the fan-out of run_mongo_agent / run_analyst_agent:                 *)
(* the results of execute_subtask, awaited together by asyncio.gather      *)

\* what the generator may give a sub-task: no pipeline (a find or a count,
\* or the SQL agent), a pipeline that needs no repair, one that fails
\* validation and one on which fix_pipeline raises
GatherPipelines == {
    << >>,
    << Stage(K_group, JObj(<< Item(K_id, JStr(S_cat)), Item(K_x, JStr(S_sum1)) >>)) >>,
    << Stage(K_group, JObj(<< Item(K_id, JStr(S_cat)), Item(K_x, JStr(S_price)) >>)) >>,
    << Stage(K_group, JNull) >>
}

\* the try block of step 1 ends without an exception
PassesRepair(p) ==
    p # << >> =>
        /\ fix_pipeline_archived(p).exc = "none"
        /\ validate_pipeline(fix_pipeline_archived(p).value) = Passed

GatherInit ==
    /\ HeapIdle /\ LogIdle /\ SqlIdle /\ MongoIdle /\ AgentIdle
    /\ pc = "gather"
    /\ copy = "archived"
    /\ pipeline = << >>
    /\ fixed = None
    /\ refixed = None
    /\ verdict = None
    /\ qtype = "none"
    /\ calls = << >>
    /\ answer = "none"
    /\ sub = [s \in Tasks |-> [pc |-> "generate", result |-> "none",
                               pipeline |-> << >>, image |-> "none"]]
    /\ report = "pending"

outsideGather == <<runVars, heapVars, logVars, sqlVars, mongoVars, agentVars>>

\* step 1 fails: the model call, model_validate_json, fix_pipeline or
\* validate_pipeline raises and the except clause returns an error result
SubGenerateFails(s) ==
    /\ report = "pending"
    /\ sub[s].pc = "generate"
    /\ \E p \in GatherPipelines :
        sub' = [sub EXCEPT ![s].pc = "done", ![s].pipeline = p,
                           ![s].result = "Error generating query"]
    /\ UNCHANGED <<report, outsideGather>>

\* step 1 succeeds
SubGenerate(s) ==
    /\ report = "pending"
    /\ sub[s].pc = "generate"
    /\ \E p \in GatherPipelines :
        /\ PassesRepair(p)
        /\ sub' = [sub EXCEPT ![s].pc = "execute", ![s].pipeline = p]
    /\ UNCHANGED <<report, outsideGather>>

\* step 2: the tool call and the parsing of its content, or its except clause
SubExecute(s) ==
    /\ report = "pending"
    /\ sub[s].pc = "execute"
    /\ \/ sub' = [sub EXCEPT ![s].pc = "visualize"]
       \/ sub' = [sub EXCEPT ![s].pc = "done", ![s].result = "Error executing query"]
    /\ UNCHANGED <<report, outsideGather>>

\* step 3: no chart wanted, a chart, or a chart error that is only printed
SubVisualize(s) ==
    /\ report = "pending"
    /\ sub[s].pc = "visualize"
    /\ \E img \in {"none", "chart.png", "Warning: Viz error"} :
        sub' = [sub EXCEPT ![s].pc = "summarize",
                           ![s].image = IF img = "chart.png" THEN img ELSE "none"]
    /\ UNCHANGED <<report, outsideGather>>

\* step 4 succeeds: the sub-task returns its SubTaskResult
SubSummarize(s) ==
    /\ report = "pending"
    /\ sub[s].pc = "summarize"
    /\ sub' = [sub EXCEPT ![s].pc = "done", ![s].result = "answered"]
    /\ UNCHANGED <<report, outsideGather>>

\* step 4 fails: generate_content raises outside every try block and the
\* exception leaves execute_subtask
SubSummarizeFails(s) ==
    /\ report = "pending"
    /\ sub[s].pc = "summarize"
    /\ sub' = [sub EXCEPT ![s].pc = "raised"]
    /\ UNCHANGED <<report, outsideGather>>

\* asyncio.gather without return_exceptions: the first exception of a
\* sub-task is raised by the await, and run_mongo_agent ends with it
GatherRaises ==
    /\ report = "pending"
    /\ \E s \in Tasks : sub[s].pc = "raised"
    /\ report' = "aborted"
    /\ UNCHANGED <<sub, outsideGather>>

\* every sub-task returned: generate_html_report(user_query, results)
GenerateReport ==
    /\ report = "pending"
    /\ \A s \in Tasks : sub[s].pc = "done"
    /\ report' = "generated"
    /\ UNCHANGED <<sub, outsideGather>>

GatherNext ==
    \/ \E s \in Tasks : SubGenerateFails(s)
    \/ \E s \in Tasks : SubGenerate(s)
    \/ \E s \in Tasks : SubExecute(s)
    \/ \E s \in Tasks : SubVisualize(s)
    \/ \E s \in Tasks : SubSummarize(s)
    \/ \E s \in Tasks : SubSummarizeFails(s)
    \/ GatherRaises
    \/ GenerateReport

SpecGather == GatherInit /\ [][GatherNext]_vars

\* C15 as claimed: every sub-task that ends, at whichever step, ends with a
\* result record of its own, and no failure of a sub-task keeps the results
\* of the others from being collected and the report from being generated.
C15_EverySubtaskReported ==
    /\ \A s \in DOMAIN sub : sub[s].pc # "raised"
    /\ report # "aborted"
    /\ report = "generated" => \A s \in DOMAIN sub : sub[s].result # "none"

----------------------------------------------------------------------------
(* C16, C17: how a caller's step ends                                       *)

\* the last tool call did not give documents
CallFailed ==
    /\ calls # << >>
    /\ ~(calls[Len(calls)].response.kind = "content"
            /\ calls[Len(calls)].response.text = Documents)

\* validate_pipeline raised
ValidationFailed == verdict.exc \notin {"unset", "none"}

\* C16 as claimed: in execute_subtask a failed query call ends the sub-task
\* with the execution error, carrying the engine's error text as the engine
\* gave it; a validation failure ends it with the other error, no query call
\* made; no failure is reported as both.
C16_EngineTextCarried ==
    (copy = "archived" /\ pc = "done") =>
        /\ CallFailed =>
            /\ answer = "Error executing query"
            /\ calls[Len(calls)].response.text \in EngineErrors =>
                    detail = calls[Len(calls)].response.text
        /\ ValidationFailed =>
            /\ answer = "Error generating query"
            /\ calls = << >>
        /\ ~(CallFailed /\ ValidationFailed)

\* how often the caller invoked op
Invocations(op) == Cardinality({ n \in 1..Len(log) : log[n] = op })

OneRepairPass ==
    /\ Invocations("generate") <= 1
    /\ Invocations("fix_pipeline") <= 1
    /\ Invocations("validate_pipeline") <= 1
    /\ (pc \in {"validate", "call", "done"} /\ qtype = "aggregate" /\ pipeline # << >>)
            => Invocations("fix_pipeline") = 1
    /\ ValidationFailed =>
            /\ pc = "done"
            /\ answer = "Error generating query"
            /\ log = <<"generate", "fix_pipeline", "validate_pipeline">>

\* how far the caller's step has come
Rank(p) ==
    CASE p = "generate" -> 0
      [] p = "fix"      -> 1
      [] p = "validate" -> 2
      [] p = "call"     -> 3
      [] OTHER          -> 4

\* C17: fix_pipeline and validate_pipeline return or raise on every
\* pipeline and the caller never goes back: every step brings it nearer to
\* its end, which it reaches in at most four steps.  A caller invokes
\* fix_pipeline exactly once per generated aggregation pipeline, and after a
\* validation failure the step has ended with an error result: no second
\* generation, repair or validation.
C17_OneRepairPassThenDone ==
    []OneRepairPass /\ [][Rank(pc') > Rank(pc)]_vars

C17_Witness ==
    /\ pc = "done"
    /\ verdict.exc = "ValueError"
    /\ answer = "Error generating query"
    /\ log = <<"generate", "fix_pipeline", "validate_pipeline">>

----------------------------------------------------------------------------
(* The SQL server: DatabaseManager (archived_sample/sql_server/db.py) and   *)
(* the tools get_schema, refresh_schema and run_select_query                *)

\* c.upper()
ToUpper(c) ==
    IF c \in Lower
    THEN UpperSeq[CHOOSE i \in 1..Len(LowerSeq) : LowerSeq[i] = c]
    ELSE c

\* s.upper()
UpperCase(s) == [i \in 1..Len(s) |-> ToUpper(s[i])]

\* s.split(c)
RECURSIVE split(_, _)
split(s, c) ==
    IF ~contains(s, c) THEN << s >>
    ELSE << SubSeq(s, 1, FirstIndex(s, c) - 1) >>
            \o split(SubSeq(s, FirstIndex(s, c) + 1, Len(s)), c)

W_SELECT   == <<"S", "E", "L", "E", "C", "T">>
W_SHOW     == <<"S", "H", "O", "W">>
W_DESCRIBE == <<"D", "E", "S", "C", "R", "I", "B", "E">>
W_EXPLAIN  == <<"E", "X", "P", "L", "A", "I", "N">>
W_WITH     == <<"W", "I", "T", "H">>

\* "select 1"
Q_select == <<"s", "e", "l", "e", "c", "t", " ", "1">>

\* " SELECT 1 "
Q_padded == <<" ", "S", "E", "L", "E", "C", "T", " ", "1", " ">>

\* "Show tables"
Q_show == <<"S", "h", "o", "w", " ", "t", "a", "b", "l", "e", "s">>

\* "describe t"
Q_describe == <<"d", "e", "s", "c", "r", "i", "b", "e", " ", "t">>

\* "EXPLAIN select 1"
Q_explain == <<"E", "X", "P", "L", "A", "I", "N", " ", "s", "e", "l", "e", "c", "t", " ", "1">>

\* "with c as (select 1) select 2"
Q_with_select == <<"w", "i", "t", "h", " ", "c", " ", "a", "s", " ", "(", "s", "e", "l", "e", "c", "t", " ", "1", ")", " ", "s", "e", "l", "e", "c", "t", " ", "2">>

\* "WITH c AS (SELECT 1) DELETE FROM t"
Q_with_delete == <<"W", "I", "T", "H", " ", "c", " ", "A", "S", " ", "(", "S", "E", "L", "E", "C", "T", " ", "1", ")", " ", "D", "E", "L", "E", "T", "E", " ", "F", "R", "O", "M", " ", "t">>

\* "DROP TABLE t"
Q_drop == <<"D", "R", "O", "P", " ", "T", "A", "B", "L", "E", " ", "t">>

\* "insert into t select 1"
Q_insert == <<"i", "n", "s", "e", "r", "t", " ", "i", "n", "t", "o", " ", "t", " ", "s", "e", "l", "e", "c", "t", " ", "1">>

\* "select 1; show tables"
Q_two == <<"s", "e", "l", "e", "c", "t", " ", "1", ";", " ", "s", "h", "o", "w", " ", "t", "a", "b", "l", "e", "s">>

\* "SELECT 1; drop table t"
Q_then_drop == <<"S", "E", "L", "E", "C", "T", " ", "1", ";", " ", "d", "r", "o", "p", " ", "t", "a", "b", "l", "e", " ", "t">>

\* "select 1;"
Q_trailing == <<"s", "e", "l", "e", "c", "t", " ", "1", ";">>

\* ""
Q_empty == <<>>

\* ";"
Q_semicolon == <<";">>

\* the query texts a client may send
Queries == {
    Q_select, Q_padded, Q_show, Q_describe,
    Q_explain, Q_with_select, Q_with_delete, Q_drop,
    Q_insert, Q_two, Q_then_drop, Q_trailing,
    Q_empty, Q_semicolon
}

MaxVersion == 2

MaxInspections == 2

MaxQueries == 1

\* query_upper.startswith('SELECT') or ... or query_upper.startswith('WITH')
StartsReadOnly(query_upper) ==
    \/ startswith(query_upper, W_SELECT)
    \/ startswith(query_upper, W_SHOW)
    \/ startswith(query_upper, W_DESCRIBE)
    \/ startswith(query_upper, W_EXPLAIN)
    \/ startswith(query_upper, W_WITH)

is_read_only_whole_text(query) == StartsReadOnly(strip(UpperCase(query)))

\* DatabaseManager.is_read_only
RECURSIVE is_read_only(_)
is_read_only(query) ==
    LET query_upper == strip(UpperCase(query))
    IN  IF ~StartsReadOnly(query_upper) THEN FALSE
        ELSE IF contains(query, ";")
        THEN LET parts      == split(query, ";")
                 statements == SelectSeq([n \in 1..Len(parts) |-> strip(parts[n])],
                                         LAMBDA s : s # << >>)
             IN  \A n \in 1..Len(statements) : is_read_only(statements[n])
        ELSE TRUE

UseCache_ignores_refresh(c, refresh) == c # NoSchema

\* if self._schema_cache and not refresh
UseCache(c, refresh) == c # NoSchema /\ ~refresh

Reply(tool, outcome, value, query) ==
    [tool |-> tool, outcome |-> outcome, value |-> value, query |-> query]

SqlInit ==
    /\ HeapIdle /\ LogIdle /\ GatherIdle /\ SqlIdle /\ MongoIdle /\ AgentIdle
    /\ pc = "sql"
    /\ copy = "none"
    /\ pipeline = << >>
    /\ fixed = None
    /\ refixed = None
    /\ verdict = None
    /\ qtype = "none"
    /\ calls = << >>
    /\ answer = "none"

outsideSql == <<runVars, heapVars, logVars, gatherVars, mongoVars, agentVars>>

\* DatabaseManager().get_schema(refresh): the cached schema, or an inspection
\* of the database that fills the cache, or an inspection that raises
SchemaCall(tool, refresh) ==
    IF UseCache(cache, refresh)
    THEN /\ reply' = Reply(tool, "returned", cache, << >>)
         /\ UNCHANGED <<cache, inspected>>
    ELSE /\ Len(inspected) < MaxInspections
         /\ \/ /\ inspected' = Append(inspected, dbschema)
               /\ cache' = dbschema
               /\ reply' = Reply(tool, "returned", dbschema, << >>)
            \/ /\ reply' = Reply(tool, "raised", NoSchema, << >>)
               /\ UNCHANGED <<cache, inspected>>

\* the tool get_schema
GetSchema ==
    /\ SchemaCall("get_schema", FALSE)
    /\ UNCHANGED <<dbschema, executed, outsideSql>>

\* the tool refresh_schema
RefreshSchema ==
    /\ SchemaCall("refresh_schema", TRUE)
    /\ UNCHANGED <<dbschema, executed, outsideSql>>

\* somebody alters the database
SchemaChange ==
    /\ dbschema < MaxVersion
    /\ dbschema' = dbschema + 1
    /\ UNCHANGED <<cache, inspected, executed, reply, outsideSql>>

\* the tool run_select_query: DatabaseManager().execute_query(query)
RunSelectQuery ==
    /\ \E query \in Queries :
        IF ~is_read_only(query)
        THEN /\ reply' = Reply("run_select_query", "ValueError", NoSchema, query)
             /\ UNCHANGED executed
        ELSE /\ Len(executed) < MaxQueries
             /\ executed' = Append(executed, query)
             /\ \E outcome \in {"returned", "raised"} :
                    reply' = Reply("run_select_query", outcome, NoSchema, query)
    /\ UNCHANGED <<dbschema, cache, inspected, outsideSql>>

\* "users"
T_users == <<"u", "s", "e", "r", "s">>

\* "a;b", a name MySQL accepts for a table when it is quoted
T_semicolon == <<"a", ";", "b">>

\* "ghosts", the name of no table
T_ghosts == <<"g", "h", "o", "s", "t", "s">>

\* "users; drop table users"
T_injection == <<"u", "s", "e", "r", "s", ";", " ", "d", "r", "o", "p", " ", "t", "a", "b", "l", "e", " ", "u", "s", "e", "r", "s">>

\* the table_name arguments a client may send
TableNames == {T_users, T_semicolon, T_ghosts, T_injection}

\* [t.name for t in schema.tables], for each state of the database
TablesOf(schema) ==
    CASE schema = 0 -> {T_users}
      [] schema = 1 -> {T_users, T_semicolon}
      [] OTHER      -> {T_semicolon}

\* "SELECT * FROM "
W_select_from == <<"S", "E", "L", "E", "C", "T", " ", "*", " ", "F", "R", "O", "M", " ">>

\* " ORDER BY RAND() LIMIT "
W_order_limit == <<" ", "O", "R", "D", "E", "R", " ", "B", "Y", " ", "R", "A", "N", "D", "(", ")", " ", "L", "I", "M", "I", "T", " ">>

\* the values of n a client may send; 5 is the default
SampleSizes == {1, 5}

\* str(n) for a number of one digit
Decimal(n) == << CHOOSE c \in Digits : DigitVal(c) = n >>

\* f"SELECT * FROM {table_name} ORDER BY RAND() LIMIT {n}"
SampleQuery(table_name, n) ==
    W_select_from \o table_name \o W_order_limit \o Decimal(n)

TableNotFound == "Table not found."
OnlyReadOnly == "Only read-only queries are allowed."

SampleReply(outcome, message, table_name, query) ==
    [tool |-> "sample_rows", outcome |-> outcome, value |-> NoSchema,
     query |-> query, table |-> table_name, message |-> message]

\* table_name in [t.name for t in schema.tables]
TableCheck(table_name, schema) == table_name \in TablesOf(schema)

\* the rest of sample_rows once get_schema() has returned schema
SampleFrom(schema, table_name, n) ==
    IF ~TableCheck(table_name, schema)
    THEN /\ reply' = SampleReply("ValueError", TableNotFound, table_name, << >>)
         /\ UNCHANGED executed
    ELSE \E query \in {SampleQuery(table_name, n)} :
            IF ~is_read_only(query)
            THEN /\ reply' = SampleReply("ValueError", OnlyReadOnly, table_name, query)
                 /\ UNCHANGED executed
            ELSE /\ Len(executed) < MaxQueries
                 /\ executed' = Append(executed, query)
                 /\ \E outcome \in {"returned", "raised"} :
                        reply' = SampleReply(outcome, "", table_name, query)

\* the tool sample_rows: DatabaseManager().sample_rows(table_name, n)
SampleRows ==
    /\ \E table_name \in TableNames, n \in SampleSizes :
        IF UseCache(cache, FALSE)
        THEN /\ SampleFrom(cache, table_name, n)
             /\ UNCHANGED <<cache, inspected>>
        ELSE /\ Len(inspected) < MaxInspections
             /\ \/ /\ inspected' = Append(inspected, dbschema)
                   /\ cache' = dbschema
                   /\ SampleFrom(dbschema, table_name, n)
                \/ /\ reply' = SampleReply("raised", "", table_name, << >>)
                   /\ UNCHANGED <<cache, inspected, executed>>
    /\ UNCHANGED <<dbschema, outsideSql>>

SqlNext == GetSchema \/ RefreshSchema \/ SchemaChange \/ RunSelectQuery
           \/ SampleRows

SpecSql == SqlInit /\ [][SqlNext]_vars

\* the text, trimmed and in upper case, begins with one of the four keywords
IsOneOfFour(query) ==
    LET text == LET u == UpperCase(query)
                    ink == { i \in 1..Len(u) : u[i] \notin Whitespace }
                IN  IF ink = {} THEN << >> ELSE SubSeq(u, Min(ink), Len(u))
    IN  \E w \in {W_SELECT, W_SHOW, W_DESCRIBE, W_EXPLAIN} :
            Len(text) >= Len(w) /\ \A i \in 1..Len(w) : text[i] = w[i]

\* C19 as claimed: run_select_query executes a query only if it is a SELECT,
\* SHOW, DESCRIBE or EXPLAIN statement, the keyword matched without regard to
\* case after trimming; a query of any other kind is rejected with
\* ValueError("Only read-only queries are allowed.") and is not executed.
C19_OnlyFourKinds ==
    /\ \A n \in 1..Len(executed) : IsOneOfFour(executed[n])
    /\ (reply.tool = "run_select_query" /\ ~IsOneOfFour(reply.query)) =>
            reply.outcome = "ValueError"

\* the schema the inspector read last
LastInspected == inspected[Len(inspected)]

CacheIsLastInspection ==
    /\ cache = NoSchema <=> inspected = << >>
    /\ cache # NoSchema => cache = LastInspected
    /\ (reply.tool = "get_schema" /\ reply.outcome = "returned") =>
            inspected # << >> /\ reply.value = LastInspected

\* a step of the server
InspectsWhenNeeded ==
    /\ inspected' # inspected =>
            /\ cache = NoSchema \/ reply'.tool = "refresh_schema"
            /\ inspected' = Append(inspected, dbschema)
            /\ cache' = dbschema
    /\ (dbschema' = dbschema /\ reply'.tool = "refresh_schema"
            /\ reply'.outcome = "returned") =>
            /\ inspected' = Append(inspected, dbschema)
            /\ cache' = dbschema
    /\ (dbschema' = dbschema /\ reply'.tool = "get_schema"
            /\ reply'.outcome = "returned" /\ cache # NoSchema) =>
            /\ inspected' = inspected
            /\ reply'.value = cache

\* C20: get_schema() inspects the database only when no schema is cached
\* (refresh_schema asks for the inspection itself) and otherwise returns the
\* cached schema; a refresh_schema that returns has inspected the database
\* again and replaced the cache.  Whatever get_schema, refresh_schema and
\* schema changes came before, the schema get_schema() returns is the one
\* read at the most recent inspection, never an older one.
C20_SchemaCache == []CacheIsLastInspection /\ [][InspectsWhenNeeded]_vars

C20_Witness ==
    /\ reply.tool = "get_schema"
    /\ reply.outcome = "returned"
    /\ Len(inspected) >= 2
    /\ reply.value = LastInspected
    /\ reply.value # dbschema
    /\ reply.value # inspected[1]

----------------------------------------------------------------------------
(* The tool sample_rows                                                     *)

\* the schema sample_rows looked the name up in: the cache after the call
SchemaSeen == cache

\* the call of sample_rows that has just ended got a schema from get_schema()
SampleChecked ==
    /\ reply.tool = "sample_rows"
    /\ ~(reply.outcome = "raised" /\ reply.query = << >>)

\* C21 as claimed: sample_rows validates the table name before it builds
\* SQL.  When table_name is not one of the table names of the schema that
\* get_schema() returned, it raises ValueError("Table '<name>' not found.")
\* and executes no query; otherwise it executes one read-only SELECT
\* against that table.
C21_ValidatesThenSelects ==
    SampleChecked =>
        IF reply.table \notin TablesOf(SchemaSeen)
        THEN /\ reply.outcome = "ValueError"
             /\ reply.message = TableNotFound
        ELSE /\ reply.outcome \in {"returned", "raised"}
             /\ executed # << >>
             /\ executed[Len(executed)] = SampleQuery(reply.table, 1)
                    \/ executed[Len(executed)] = SampleQuery(reply.table, 5)

----------------------------------------------------------------------------
(* Texts of several statements                                              *)

\* the text begins, once trimmed and in upper case, with a keyword that
\* is_read_only allows
BeginsAllowed(text) ==
    LET u == Trimmed(UpperCase(text))
    IN  \E w \in {W_SELECT, W_SHOW, W_DESCRIBE, W_EXPLAIN, W_WITH} :
            Len(u) >= Len(w) /\ \A i \in 1..Len(w) : u[i] = w[i]

\* the pieces of the text between its semicolons, trimmed, the empty ones
\* left out
StatementsOf(text) ==
    LET cuts == {0, Len(text) + 1} \cup { i \in 1..Len(text) : text[i] = ";" }
        piece(a) == LET b == Min({ c \in cuts : c > a })
                    IN  Trimmed(SubSeq(text, a + 1, b - 1))
    IN  { piece(a) : a \in cuts \ {Len(text) + 1} } \ { << >> }

\* the last call of run_select_query had a text with ";" in it
SeveralStatements ==
    /\ reply.tool = "run_select_query"
    /\ \E i \in 1..Len(reply.query) : reply.query[i] = ";"

AcceptedIffAllAllowed ==
    SeveralStatements =>
        /\ reply.outcome # "ValueError" <=>
                /\ BeginsAllowed(reply.query)
                /\ \A s \in StatementsOf(reply.query) : BeginsAllowed(s)
        /\ reply.outcome # "ValueError" =>
                executed # << >> /\ executed[Len(executed)] = reply.query
        \* the statements the check calls itself on have no ";" left, so
        \* those calls call nothing further
        /\ \A s \in StatementsOf(reply.query) : ~contains(s, ";")

\* a step that ends in the ValueError has executed nothing
RejectedRunsNothing ==
    (reply'.tool = "run_select_query" /\ reply'.outcome = "ValueError") =>
        executed' = executed

\* C25: for a query text with ";" in it, execute_query accepts the text only
\* if the whole text and each of its non-empty statements begin with an
\* allowed read-only keyword; otherwise it raises ValueError before a
\* connection is opened, so that no statement of a rejected text is
\* executed, the leading allowed ones included; the check calls itself only
\* on statements without ";" and so ends on every text.
C25_EveryStatementChecked ==
    []AcceptedIffAllAllowed /\ [][RejectedRunsNothing]_vars

C25_Witness ==
    /\ reply.tool = "run_select_query"
    /\ reply.query = Q_then_drop
    /\ reply.outcome = "ValueError"
    /\ executed = << Q_two >>
    /\ BeginsAllowed(reply.query)

----------------------------------------------------------------------------
(* C22..C24: what fix_pipeline rewrites                                     *)

\* the fields other than "_id" whose value fix_pipeline has replaced
RewrittenSlots ==
    { sl \in FieldSlots(pipeline) : ValAt(fixed.value, sl) # ValAt(pipeline, sl) }

\* the field validate_pipeline's error names
Named(sl) ==
    /\ verdict.exc = "ValueError"
    /\ verdict.stage = sl[1] - 1
    /\ verdict.field = KeyAt(pipeline, sl)

\* C22: every value that fix_pipeline rewrites, by the strict pattern or by
\* the colon split, is an object of one key, and the key begins with "$".
\* validate_pipeline therefore never fails on a field that was rewritten:
\* when it fails on the repaired pipeline, the field it names is one that
\* fix_pipeline left as it was.
C22_RewrittenFieldsPass ==
    /\ Returned =>
        \A sl \in RewrittenSlots : IsAccumulatorObject(ValAt(fixed.value, sl))
    /\ (pc \in {"validated", "refixed"} /\ verdict.exc = "ValueError") =>
        /\ \E sl \in FieldSlots(pipeline) : Named(sl)
        /\ \A sl \in FieldSlots(pipeline) : Named(sl) => sl \notin RewrittenSlots

C22_Witness ==
    /\ pc = "validated"
    /\ \E sl \in RewrittenSlots :
        ValAt(fixed.value, sl).items[1].k \notin { AccOps[n] : n \in 1..Len(AccOps) }
    /\ \E sl \in RewrittenSlots :
        ValAt(fixed.value, sl).items[1].k \in { AccOps[n] : n \in 1..Len(AccOps) }
    /\ \E sl \in FieldSlots(pipeline) : Named(sl)

S_summary    == S_dsum \o <<"m","a","r","y">>                       \* "$summary"
S_first_name == <<"$","f","i","r","s","t","_","n","a","m","e">>     \* "$first_name"

\* every way to read t as an operator of the vocabulary with word characters
\* right after it: <<operator, the rest of t>> for each
AdjacentReadings(t) ==
    { <<AccOps[n], SubSeq(t, Len(AccOps[n]) + 1, Len(t))>> :
        n \in { m \in 1..Len(AccOps) :
                /\ Len(t) > Len(AccOps[m])
                /\ \A c \in 1..Len(AccOps[m]) : t[c] = AccOps[m][c]
                /\ \A c \in (Len(AccOps[m]) + 1)..Len(t) : t[c] \in WordChars } }

\* the value of field sl is a string with such a reading
ReadsAdjacent(sl) ==
    /\ IsStr(ValAt(pipeline, sl))
    /\ AdjacentReadings(Trimmed(ValAt(pipeline, sl).s)) # {}

\* C23: the strict pattern needs no separator between operator and operand.
\* A string that, trimmed, is an operator of the vocabulary with operand
\* characters right after it is rewritten as {operator: rest}: "$summary"
\* becomes {"$sum": "mary"} and "$first_name" becomes {"$first": "_name"},
\* and validate_pipeline passes them, whereas "$price" is left as it is and
\* rejected as a value that is no object.
C23_OperatorThenOperandAdjacent ==
    /\ Returned =>
        /\ \A sl \in FieldSlots(pipeline) :
            ReadsAdjacent(sl) =>
                \A rd \in AdjacentReadings(Trimmed(ValAt(pipeline, sl).s)) :
                    ResultIs(sl, Acc(rd[1], NumberOrText(rd[2])))
        /\ Becomes(S_summary, Acc(S_dsum, JStr(<<"m","a","r","y">>)))
        /\ Becomes(S_first_name,
                   Acc(<<"$","f","i","r","s","t">>, JStr(<<"_","n","a","m","e">>)))
        /\ Becomes(S_price, JStr(S_price))
    /\ pc \in {"validated", "refixed"} =>
        /\ \A sl \in FieldSlots(pipeline) : ReadsAdjacent(sl) => ~Named(sl)
        /\ (FieldSlots(pipeline) # {} /\ \A sl \in FieldSlots(pipeline) : ReadsAdjacent(sl))
                => verdict = Passed
        /\ (FieldSlots(pipeline) # {}
                /\ \A sl \in FieldSlots(pipeline) : ValAt(pipeline, sl) = JStr(S_price))
                => (verdict.exc = "ValueError" /\ verdict.check = "isinstance")

C23_Witness ==
    /\ pc = "validated"
    /\ copy = "archived"
    /\ \E sl \in FieldSlots(pipeline) :
        /\ ValAt(pipeline, sl) = JStr(S_first_name)
        /\ ValAt(fixed.value, sl) =
                Acc(<<"$","f","i","r","s","t">>, JStr(<<"_","n","a","m","e">>))
    /\ verdict = Passed

\* what each copy of fix_pipeline returns for the generated pipeline: the
\* copy that ran has its result in fixed
ByUnified  == IF copy = "unified" THEN fixed ELSE fix_pipeline(pipeline)
ByArchived == IF copy = "archived" THEN fixed ELSE fix_pipeline_archived(pipeline)

\* t is an operator of the vocabulary followed by nothing but colons,
\* whitespace and quote characters, in any number and order
OperatorAndPunctuation(t) ==
    \E n \in 1..Len(AccOps) :
        /\ Len(t) >= Len(AccOps[n])
        /\ SubSeq(t, 1, Len(AccOps[n])) = AccOps[n]
        /\ \A c \in (Len(AccOps[n]) + 1)..Len(t) : t[c] \in SepChars \cup Quotes

\* t is an operator of the vocabulary followed by colons and whitespace and
\* then by at most two quote characters
OperatorWithoutOperand(t) == BareReadings(t) # {}

\* the two results differ at field sl the way a bare operator makes them
\* differ: {"$<op>": "$value"} from the unified copy, the string itself (no
\* colon) or its colon split from the archived copy
DifferAsBare(sl) ==
    LET v == ValAt(pipeline, sl)
        t == Trimmed(v.s)
    IN  /\ \E n \in 1..Len(AccOps) :
            /\ Len(t) >= Len(AccOps[n])
            /\ SubSeq(t, 1, Len(AccOps[n])) = AccOps[n]
            /\ ValAt(ByUnified.value, sl) = Acc(AccOps[n], JStr(DefaultOperand))
        /\ ValAt(ByArchived.value, sl) =
                IF \E n \in 1..Len(v.s) : v.s[n] = ":"
                THEN SplitAtFirstColon(t) ELSE v

\* the copies agree but for the fields whose string is in Region
CopiesAgreeOutside(Region(_)) ==
    pc \in {"fixed", "validated", "refixed"} =>
        /\ ByUnified.exc = ByArchived.exc
        /\ fixed.exc = "none" =>
            /\ Len(ByUnified.value) = Len(ByArchived.value)
            /\ \A i \in 1..Len(pipeline) :
                ~HasGroup(pipeline[i]) => ByUnified.value[i] = ByArchived.value[i]
            /\ \A sl \in Slots(pipeline) :
                LET v == ValAt(pipeline, sl)
                IN  IF KeyAt(pipeline, sl) # K_id /\ IsStr(v) /\ Region(Trimmed(v.s))
                    THEN DifferAsBare(sl)
                    ELSE ValAt(ByUnified.value, sl) = ValAt(ByArchived.value, sl)
            /\ (\A sl \in FieldSlots(pipeline) :
                    ~(IsStr(ValAt(pipeline, sl))
                        /\ Region(Trimmed(ValAt(pipeline, sl).s))))
                => ByUnified = ByArchived

\* C24 as claimed: the two copies of fix_pipeline return equal outputs on
\* every pipeline, except where a "$group" value other than "_id" is, once
\* trimmed, an operator of the vocabulary with no operand, followed at most
\* by colons, whitespace or quote characters: there the unified copy gives
\* {"$<op>": "$value"} and the archived copy leaves the string as it is (no
\* colon) or takes the colon split.
C24_CopiesDifferOnPunctuation == CopiesAgreeOutside(OperatorAndPunctuation)

\* C24 amended: the same, the exception being the strings that, once
\* trimmed, are an operator of the vocabulary followed by colons and
\* whitespace and then by at most two quote characters ("$sum", "$sum:",
\* "$sum '", "$max''").  A quote before a separator ("$sum':") or a third
\* quote makes both patterns fail, and the copies agree on such a string.
C24_CopiesDifferOnBareOperator == CopiesAgreeOutside(OperatorWithoutOperand)

C24_Witness ==
    /\ pc = "fixed"
    /\ copy = "archived"
    /\ \E sl \in FieldSlots(pipeline) :
        /\ ValAt(pipeline, sl) = JStr(S_dsum \o <<":", "'">>)
        /\ ValAt(fixed.value, sl) = Acc(S_dsum, JStr(<< >>))
        /\ ValAt(ByUnified.value, sl) = Acc(S_dsum, JStr(DefaultOperand))
    /\ ByUnified # ByArchived

----------------------------------------------------------------------------
(* The read-only MongoDB server: MongoDBSession, MongoDBToolBase and the    *)
(* tools connect, find, count, aggregate and list_collections (mongodb/)    *)
(* A text is the sequence of the pieces an f-string puts together.          *)

MaxOps == 1

\* MongoDBConfig.database_name
DatabaseName == "ecommerce_analytics"

\* the database argument of a read tool: None by default, or a name
DatabaseArgs == {"None", "reviews"}

ReadTools == {"find", "count", "aggregate", "list_collections"}

\* MongoDBError(code, message): error.message; other exceptions: str(error)
MongoDBError(message) == [cls |-> "MongoDBError", message |-> message]
Raised(cls, message) == [cls |-> cls, message |-> message]

NotConnected == MongoDBError(<<"Not connected to MongoDB">>)
NoDatabase   == MongoDBError(<<"No database specified">>)

\* what pymongo raises: by MongoClient(...) on a connection string it cannot
\* use, by a command when no server answers, by a command the server refuses
InvalidURI             == Raised("InvalidURI", <<"Invalid URI scheme">>)
ServerSelectionTimeout == Raised("ServerSelectionTimeoutError", <<"No servers found yet">>)
OperationFailure       == Raised("OperationFailure", <<"not authorized">>)

\* except Exception as e: raise MongoDBError(..., f"Failed to connect to MongoDB: {str(e)}")
ConnectFailed(e) == MongoDBError(<<"Failed to connect to MongoDB: ">> \o e.message)

\* MongoDBSession.get_database: the name of the database whose handle is
\* returned, or the error raised
get_database(database_name) ==
    IF client = "None" THEN [exc |-> NotConnected, db |-> "None"]
    ELSE LET db_name == IF database_name # "None" THEN database_name
                        ELSE current_database
         IN  IF db_name = "None" THEN [exc |-> NoDatabase, db |-> "None"]
             ELSE [exc |-> NoError, db |-> db_name]

\* MongoDBSession.get_collection: database[collection_name] of get_database
get_collection(database_name) == get_database(database_name)

handle_error_unexpected_only(error) ==
    [isError |-> TRUE, text |-> <<"Unexpected error: ">> \o error.message]

\* MongoDBToolBase.handle_error
handle_error(error) ==
    IF error.cls = "MongoDBError"
    THEN [isError |-> TRUE, text |-> <<"MongoDB Error: ">> \o error.message]
    ELSE [isError |-> TRUE, text |-> <<"Unexpected error: ">> \o error.message]

Caught_MongoDBError_only(error) == error.cls = "MongoDBError"

\* except Exception as e: every exception raised inside the try is caught
Caught(error) == error.cls # "none"

\* the body of execute ended with error (NoError: it reached its return);
\* what execute gives its caller
Respond(tool, error) ==
    IF error = NoError
    THEN [tool |-> tool, kind |-> "returned", isError |-> FALSE,
          text |-> <<"content of ", tool>>]
    ELSE IF Caught(error)
    THEN [tool |-> tool, kind |-> "returned",
          isError |-> handle_error(error).isError, text |-> handle_error(error).text]
    ELSE [tool |-> tool, kind |-> "raised", isError |-> FALSE, text |-> error.message]

MongoInit ==
    /\ HeapIdle /\ LogIdle /\ GatherIdle /\ SqlIdle /\ AgentIdle
    /\ config \in {"valid", "invalid"}
    /\ server \in {"up", "down"}
    /\ SessionNew
    /\ pc = "mongo"
    /\ copy = "none"
    /\ pipeline = << >>
    /\ fixed = None
    /\ refixed = None
    /\ verdict = None
    /\ qtype = "none"
    /\ calls = << >>
    /\ answer = "none"

outsideMongo == <<runVars, heapVars, logVars, gatherVars, sqlVars, agentVars>>

\* the server goes away or comes back
ServerChange ==
    /\ server' = IF server = "up" THEN "down" ELSE "up"
    /\ UNCHANGED <<config, client, current_database, connected, issued,
                   thrown, response, outsideMongo>>

\* ConnectTool.execute: session.connect(config), then list_database_names()
Connect ==
    /\ IF config = "invalid"
       THEN \* MongoClient(...) raises: self.client is not assigned
            /\ thrown' = ConnectFailed(InvalidURI)
            /\ connected' = "failed"
            /\ UNCHANGED <<client, current_database>>
       ELSE /\ client' = "MongoClient"
            /\ IF server = "down"
               THEN \* the ping raises: self.client stays assigned
                    /\ thrown' = ConnectFailed(ServerSelectionTimeout)
                    /\ connected' = "failed"
                    /\ UNCHANGED current_database
               ELSE /\ current_database' = DatabaseName
                    /\ connected' = "ok"
                    /\ thrown' \in {NoError, ServerSelectionTimeout, OperationFailure}
    /\ response' = Respond("connect", thrown')
    /\ UNCHANGED <<config, server, issued, outsideMongo>>

\* FindTool, CountTool, AggregateTool (get_collection) and
\* ListCollectionsTool (get_database): the handle, then one operation on it
ReadTool(tool, database) ==
    /\ \E h \in {get_collection(database)} :
        IF h.exc # NoError
        THEN /\ thrown' = h.exc
             /\ UNCHANGED issued
        ELSE /\ Len(issued) < MaxOps
             /\ issued' = Append(issued, [tool |-> tool, db |-> h.db])
             /\ IF server = "down"
                THEN thrown' = ServerSelectionTimeout
                ELSE thrown' \in {NoError, OperationFailure}
    /\ response' = Respond(tool, thrown')
    /\ UNCHANGED <<config, server, client, current_database, connected, outsideMongo>>

Read == \E tool \in ReadTools, database \in DatabaseArgs : ReadTool(tool, database)

MongoNext == ServerChange \/ Connect \/ Read

SpecMongo == MongoInit /\ [][MongoNext]_vars

\* the answer the claim expects while there is no connection
NotConnectedResponse(tool) ==
    [tool |-> tool, kind |-> "returned", isError |-> TRUE,
     text |-> <<"MongoDB Error: ", "Not connected to MongoDB">>]

AnswersNotConnected ==
    (response.tool \in ReadTools /\ connected # "ok") =>
        response = NotConnectedResponse(response.tool)

NothingIssuedUnconnected ==
    (response'.tool \in ReadTools /\ connected' # "ok") => issued' = issued

\* C26 as claimed: get_database and get_collection hand out a handle only
\* after a connect() that ended well (the ping succeeded).  Before any
\* connect, and after a connect that failed, they raise MongoDBError
\* NOT_CONNECTED_TO_MONGODB, so that find, count, aggregate and
\* list_collections answer with the "Not connected to MongoDB" error
\* response and send no operation to the database.
C26_HandleOnlyAfterConnect ==
    []AnswersNotConnected /\ [][NothingIssuedUnconnected]_vars

\* C27: connect, find, count, aggregate and list_collections never raise to
\* the MCP layer.  An exception raised during execute becomes a response
\* with isError true, whose text is "MongoDB Error: <message>" for a
\* MongoDBError and "Unexpected error: <text>" for any other exception; a
\* call that succeeds carries no isError.
C27_ErrorsBecomeResponses ==
    response.tool # "none" =>
        /\ response.kind = "returned"
        /\ thrown.cls = "MongoDBError" =>
            /\ response.isError
            /\ response.text = <<"MongoDB Error: ">> \o thrown.message
        /\ thrown.cls \notin {"MongoDBError", "none"} =>
            /\ response.isError
            /\ response.text = <<"Unexpected error: ">> \o thrown.message
        /\ thrown.cls = "none" => ~response.isError

C27_Witness ==
    /\ response.tool = "aggregate"
    /\ thrown = OperationFailure
    /\ response.isError
    /\ response.text = <<"Unexpected error: ", "not authorized">>
    /\ issued # << >>

----------------------------------------------------------------------------
(* UnifiedAgent.run: the connections of start() and their closing           *)

MaxPlan == 3

\* the awaits of start(), in order
StartOrder == << "enter sql client", "enter sql session", "initialize sql",
                 "enter mongo client", "enter mongo session", "initialize mongo" >>

StartSteps == { StartOrder[n] : n \in 1..Len(StartOrder) }

\* the position after start step s
AfterStart(s) ==
    LET n == CHOOSE m \in 1..Len(StartOrder) : StartOrder[m] = s
    IN  IF n = Len(StartOrder) THEN "schema" ELSE StartOrder[n + 1]

\* the context that step s enters into the exit stack, "none" for initialize()
ContextOf(s) ==
    CASE s = "enter sql client"     -> "sse_client(SQL_SERVER_URL)"
      [] s = "enter sql session"    -> "ClientSession(sql)"
      [] s = "enter mongo client"   -> "sse_client(MONGO_SERVER_URL)"
      [] s = "enter mongo session"  -> "ClientSession(mongo)"
      [] OTHER                      -> "none"

\* the connection that step s opens
ConnectionOf(s) ==
    CASE s = "enter sql client"   -> {"sql"}
      [] s = "enter mongo client" -> {"mongo"}
      [] OTHER                    -> {}

\* PlanStep.tool
StepTools == {"sql_query", "mongo_query", "other"}

AgentInit ==
    /\ HeapIdle /\ LogIdle /\ GatherIdle /\ SqlIdle /\ MongoIdle /\ AgentIdle
    /\ pc = StartOrder[1]
    /\ copy = "unified"
    /\ pipeline = << >>
    /\ fixed = None
    /\ refixed = None
    /\ verdict = None
    /\ qtype = "none"
    /\ calls = << >>
    /\ answer = "none"

outsideAgent == <<copy, pipeline, fixed, refixed, verdict, qtype, calls, answer,
                  heapVars, detail, gatherVars, sqlVars, mongoVars>>

\* one await of start() that succeeds
StartStep ==
    /\ pc \in StartSteps
    /\ exit_stack' = IF ContextOf(pc) = "none" THEN exit_stack
                     ELSE Append(exit_stack, ContextOf(pc))
    /\ opened' = opened \cup ConnectionOf(pc)
    /\ pc' = AfterStart(pc)
    /\ UNCHANGED <<todo, log, outsideAgent>>

\* one await of start() that raises: start() prints and re-raises, and run
\* awaits start() before its try
StartFails ==
    /\ pc \in StartSteps
    /\ pc' = "raised"
    /\ UNCHANGED <<exit_stack, opened, todo, log, outsideAgent>>

\* schema = await self.get_combined_schema()
Schema ==
    /\ pc = "schema"
    /\ pc' = "plan"
    /\ UNCHANGED <<exit_stack, opened, todo, log, outsideAgent>>

\* plan = await self.generate_plan(user_query, schema)
Plan ==
    /\ pc = "plan"
    /\ todo' \in SeqsUpTo(StepTools, MaxPlan)
    /\ pc' = "steps"
    /\ UNCHANGED <<exit_stack, opened, log, outsideAgent>>

\* one iteration of `for step in plan.steps`: the step's result is kept,
\* a step of an unknown tool is skipped
Step ==
    /\ pc = "steps"
    /\ todo # << >>
    /\ todo' = Tail(todo)
    /\ log' = IF Head(todo) = "other" THEN log ELSE Append(log, Head(todo))
    /\ UNCHANGED <<pc, exit_stack, opened, outsideAgent>>

\* the final answer
Synthesize ==
    /\ pc = "steps"
    /\ todo = << >>
    /\ pc' = "finally"
    /\ UNCHANGED <<exit_stack, opened, todo, log, outsideAgent>>

\* an exception inside the try: schema fetching, planning, a step that is
\* no unknown tool, or the synthesis
BodyFails ==
    /\ \/ pc \in {"schema", "plan"}
       \/ pc = "steps" /\ (IF todo = << >> THEN TRUE ELSE Head(todo) # "other")
    /\ pc' = "finally after exception"
    /\ UNCHANGED <<exit_stack, opened, todo, log, outsideAgent>>

\* finally: await self.stop(), which is self.exit_stack.aclose()
Stop ==
    /\ pc \in {"finally", "finally after exception"}
    /\ exit_stack' = << >>
    /\ opened' = {}
    /\ pc' = IF pc = "finally" THEN "returned" ELSE "raised"
    /\ UNCHANGED <<todo, log, outsideAgent>>

AgentNext ==
    StartStep \/ StartFails \/ Schema \/ Plan \/ Step \/ Synthesize \/ BodyFails \/ Stop

SpecAgent == AgentInit /\ [][AgentNext]_vars

\* C28 as claimed: UnifiedAgent.run closes every server connection that
\* start() opened, on every path: normal completion, an exception in schema
\* fetching, planning, a step or the synthesis, and a failure part-way
\* through start() (the SQL connection opened, the MongoDB connection
\* failing).  When run returns or raises, no connection entered into the
\* exit stack is left open.
C28_EveryConnectionClosed ==
    pc \in {"returned", "raised"} => (opened = {} /\ exit_stack = << >>)

====
